---------------------------- MODULE Spec2Model ----------------------------
(***************************************************************************)
(* A model of the ABNF parsing engine of parser-lib: the character         *)
(* classifiers and low-level advancers (core_rules.hpp), the repetition    *)
(* driver (generator.hpp), the production combinators (abnf/parser.hpp)    *)
(* and the syntax tree builder context (abnf/syntax_tree.hpp).             *)
(*                                                                         *)
(* A text is a sequence of character codes.  A position is an index into   *)
(* a buffer `buf`; `last` is the index one past the final character of the *)
(* text.  The buffer holds one more slot than the text, buf[last]: what a  *)
(* read through the end iterator yields (the terminating NUL of a          *)
(* std::string; any value for a std::vector<char>).                        *)
(***************************************************************************)
EXTENDS Integers, Sequences, FiniteSets, TLC

(***************************************************************************)
(* Bounds of the model.                                                    *)
(***************************************************************************)
MaxLen == 2      \* exhaustive texts over Alphabet, for the combinator runs
MaxLines == 2    \* lines of a grammar text given to the builder

(***************************************************************************)
(* Character codes (7-bit ASCII).                                          *)
(***************************************************************************)
Code ==
    [c \in {"a", "b", "c", "d", "x", "R", "S", "0", "1", "2", "9", "%", "-", ".",
            "<", ">", "(", ")", "[", "]", "*", "=", "/", " ", ";", "q",
            "n", "r", "t", "z", "u"} |->
        CASE c = "a" -> 97  [] c = "b" -> 98  [] c = "c" -> 99
          [] c = "d" -> 100 [] c = "x" -> 120
          [] c = "R" -> 82  [] c = "S" -> 83
          [] c = "0" -> 48  [] c = "1" -> 49  [] c = "2" -> 50  [] c = "9" -> 57
          [] c = "%" -> 37  [] c = "-" -> 45  [] c = "." -> 46
          [] c = "<" -> 60  [] c = ">" -> 62  [] c = "(" -> 40  [] c = ")" -> 41
          [] c = "[" -> 91  [] c = "]" -> 93  [] c = "*" -> 42  [] c = "=" -> 61
          [] c = "/" -> 47  [] c = " " -> 32  [] c = ";" -> 59
          [] c = "q" -> 34      \* DQUOTE
          [] c = "n" -> 10      \* LF
          [] c = "r" -> 13      \* CR
          [] c = "t" -> 9       \* HTAB
          [] c = "z" -> 0       \* NUL
          [] c = "u" -> 1]      \* a control character, %x01

\* The text spelled by a tuple of one-character names.
Str(t) == [i \in 1..Len(t) |-> Code[t[i]]]

Ch(c) == Code[c]

(***************************************************************************)
(* core_rules.hpp                                                          *)
(***************************************************************************)
Ret(ok, pos) == [ok |-> ok, pos |-> pos]

\* The one element of a singleton.  The({ F(x) : x \in {e} }) is F of the
\* value of e, computed once: the way a local variable of the code is
\* modelled where its value is read more than once.
The(S) == CHOOSE x \in S : TRUE

\* *p: the character at position p.  A read past the buffer yields NUL.
At(buf, p) == IF p >= 1 /\ p <= Len(buf) THEN buf[p] ELSE 0

\* The characters of [first, last).
Slice(buf, first, last) == [i \in 1..(last - first) |-> At(buf, first + i - 1)]

\* A mutant: moves the caller's position also when it reports no progress.
compare_and_assign_always(a, b) == [ok |-> FALSE, pos |-> b]

compare_and_assign(a, b) == IF a # b THEN Ret(TRUE, b) ELSE Ret(FALSE, a)

is_alpha(ch) == (ch >= 65 /\ ch <= 90) \/ (ch >= 97 /\ ch <= 122)

is_bit(ch) == ch = 48 \/ ch = 49

is_cr_char(ch) == ch = 13

is_lf_char(ch) == ch = 10

is_digit_char(ch) == ch >= 48 /\ ch <= 57

is_hexdigit_char(ch) ==
    \/ is_digit_char(ch)
    \/ (ch >= 65 /\ ch <= 70)
    \/ (ch >= 97 /\ ch <= 102)

is_dquote_char(ch) == ch = 34

is_whitespace_char(ch) == ch = 32 \/ ch = 9

\* CRLF = CR LF.  The character after the CR is read without a test for the
\* end of the text.
advance_internet_newline(buf, pos, last) ==
    IF pos = last THEN Ret(FALSE, pos)
    ELSE IF ~is_cr_char(At(buf, pos)) THEN Ret(FALSE, pos)
    ELSE IF ~is_lf_char(At(buf, pos + 1)) THEN Ret(FALSE, pos)
    ELSE compare_and_assign(pos, pos + 2)

\* A mutant: the character after a CR is read without asking for the end.
advance_newline_eager(buf, pos, last) ==
    IF pos = last THEN Ret(FALSE, pos)
    ELSE IF is_cr_char(At(buf, pos))
         THEN LET p == pos + 1
              IN  IF is_lf_char(At(buf, p))
                  THEN compare_and_assign(pos, p + 1)
                  ELSE compare_and_assign(pos, p)
    ELSE IF is_lf_char(At(buf, pos)) THEN compare_and_assign(pos, pos + 1)
    ELSE Ret(FALSE, pos)

advance_newline(buf, pos, last) ==
    IF pos = last THEN Ret(FALSE, pos)
    ELSE IF is_cr_char(At(buf, pos))
         THEN LET p == pos + 1
              IN  IF p # last /\ is_lf_char(At(buf, p))
                  THEN compare_and_assign(pos, p + 1)
                  ELSE compare_and_assign(pos, p)
    ELSE IF is_lf_char(At(buf, pos)) THEN compare_and_assign(pos, pos + 1)
    ELSE Ret(FALSE, pos)

RECURSIVE lwsp_loop(_, _, _)
lwsp_loop(buf, p, last) ==
    IF p = last THEN p
    ELSE IF is_whitespace_char(At(buf, p)) THEN lwsp_loop(buf, p + 1, last)
    ELSE The({ IF nl.ok THEN lwsp_loop(buf, nl.pos, last) ELSE p
               : nl \in {advance_newline(buf, p, last)} })

advance_linear_whitespace(buf, pos, last) ==
    compare_and_assign(pos, lwsp_loop(buf, pos, last))


(***************************************************************************)
(* Digit-run advancers: walk a run of characters of one class and report   *)
(* whether the position moved.                                             *)
(***************************************************************************)
is_digit_func(flag, ch) ==
    CASE flag = "hexadecimal" -> is_hexdigit_char(ch)
      [] flag = "decimal"     -> is_digit_char(ch)
      [] flag = "binary"      -> is_bit(ch)

RECURSIVE digits_loop(_, _, _, _)
digits_loop(flag, buf, p, last) ==
    IF p # last /\ is_digit_func(flag, At(buf, p))
    THEN digits_loop(flag, buf, p + 1, last)
    ELSE p

advance_func(flag, buf, pos, last) ==
    compare_and_assign(pos, digits_loop(flag, buf, pos, last))

(***************************************************************************)
(* generator.hpp                                                           *)
(***************************************************************************)
INT_MAX == 2147483647

make_range(lower_bound, upper_bound) == <<lower_bound, upper_bound>>

unlimited_range == make_range(0, INT_MAX)

\* numeric_limits<long>::max() of a build whose long has 32 bits.
LONG_MAX == 2147483647

\* {value, ok} of a digit string.  The sum that would pass LONG_MAX (the
\* signed overflow of the code) wraps around.
RECURSIVE to_decimal_loop(_, _, _)
to_decimal_loop(buf, i, result) ==
    LET cutoff_value == LONG_MAX \div 10
        cutoff_limit == (LONG_MAX % 10) + 1
        digit == At(buf, i) - 48
    IN  IF i > Len(buf) THEN <<result, TRUE>>
        ELSE IF digit < 0 \/ digit > 9 THEN <<0, FALSE>>
        ELSE IF result < cutoff_value
                \/ (result = cutoff_value /\ digit <= cutoff_limit)
        THEN The({ to_decimal_loop(buf, i + 1, r)
                   : r \in {IF result = cutoff_value /\ digit = cutoff_limit
                            THEN -LONG_MAX - 1
                            ELSE result * 10 + digit} })
        ELSE <<LONG_MAX, FALSE>>

to_decimal_number(digits) == to_decimal_loop(digits, 1, 0)

(***************************************************************************)
(* Context callbacks.  A combinator returns [ok, pos, ev]: its result, the *)
(* caller's position after the call and the callbacks it made, in order.   *)
(***************************************************************************)
Ev(k) == [k |-> k, text |-> <<>>, flag |-> "unspecified", success |-> TRUE,
          inc |-> FALSE, from |-> 0, to |-> 0, code |-> "success"]

EvText(k, text) == [Ev(k) EXCEPT !.text = text]

EvNumber(k, flag, text) == [Ev(k) EXCEPT !.flag = flag, !.text = text]

EvEnd(k, success) == [Ev(k) EXCEPT !.success = success]

EvRepeat(from, to) == [Ev("repeat") EXCEPT !.from = from, !.to = to]

EvError(code) == [Ev("error") EXCEPT !.code = code]

EvBeginRule(name, inc) == [Ev("begin_rule") EXCEPT !.text = name, !.inc = inc]

EvEndRule(name, inc, success) ==
    [Ev("end_rule") EXCEPT !.text = name, !.inc = inc, !.success = success]

Res(ok, pos, ev) == [ok |-> ok, pos |-> pos, ev |-> ev]

NoMatch(pos) == Res(FALSE, pos, <<>>)

\* The result of the closing compare_and_assign(pos, p) of a combinator.
Assign(pos, p, ev) ==
    LET r == compare_and_assign(pos, p) IN Res(r.ok, r.pos, ev)

(***************************************************************************)
(* abnf/parser.hpp: prose and number                                       *)
(***************************************************************************)
is_prose_value_char(ch) == (ch >= 32 /\ ch <= 61) \/ (ch >= 63 /\ ch <= 126)

RECURSIVE prose_loop(_, _, _)
prose_loop(buf, p, last) ==
    IF p # last /\ is_prose_value_char(At(buf, p))
    THEN prose_loop(buf, p + 1, last)
    ELSE p

advance_prose_value(buf, pos, last) ==
    IF pos = last THEN Ret(FALSE, pos)
    ELSE IF At(buf, pos) # 60 THEN Ret(FALSE, pos)
    ELSE The({ IF p = last THEN Ret(FALSE, pos)
               ELSE IF At(buf, p) # 62 THEN Ret(FALSE, pos)
               ELSE compare_and_assign(pos, p + 1)
               : p \in {prose_loop(buf, pos + 1, last)} })

\* The dotted tail of a number: each "." must be followed by a digit run.
RECURSIVE number_seq_loop(_, _, _, _, _)
\* A mutant: a "-" continues a dotted sequence as a "." does.
number_seq_loop_mixed(flag, buf, p, last, ev) ==
    IF At(buf, p) # 46 /\ At(buf, p) # 45 THEN Res(TRUE, p, ev)
    ELSE IF ~is_digit_func(flag, At(buf, p + 1)) THEN Res(FALSE, p + 1, ev)
    ELSE The({ IF ~a.ok THEN Res(FALSE, p + 1, ev)
               ELSE number_seq_loop(flag, buf, a.pos, last,
                        Append(ev, EvNumber("next_number", flag,
                                            Slice(buf, p + 1, a.pos))))
               : a \in {advance_func(flag, buf, p + 1, last)} })

number_seq_loop(flag, buf, p, last, ev) ==
    IF At(buf, p) # 46 THEN Res(TRUE, p, ev)
    ELSE IF ~is_digit_func(flag, At(buf, p + 1)) THEN Res(FALSE, p + 1, ev)
    ELSE The({ IF ~a.ok THEN Res(FALSE, p + 1, ev)
               ELSE number_seq_loop(flag, buf, a.pos, last,
                        Append(ev, EvNumber("next_number", flag,
                                            Slice(buf, p + 1, a.pos))))
               : a \in {advance_func(flag, buf, p + 1, last)} })

number_flag(ch) ==
    CASE ch = 120 -> "hexadecimal"
      [] ch = 100 -> "decimal"
      [] ch = 98  -> "binary"
      [] OTHER    -> "unspecified"

\* A mutant: a "-" that no digit follows ends the number as a single value.
number_tail_dangling(flag, buf, pos, last, first_pos, p) ==
    LET ev1 == <<EvNumber("first_number", flag, Slice(buf, first_pos, p))>>
    IN  IF p # last /\ At(buf, p) = 45 /\ ~is_digit_func(flag, At(buf, p + 1))
        THEN Assign(pos, p + 1, Append(ev1, EvNumber("last_number", flag, <<>>)))
        ELSE NoMatch(pos)

\* The part of a number after its first digit run [first_pos, p).
number_tail(flag, buf, pos, last, first_pos, p) ==
    LET ev1 == <<EvNumber("first_number", flag, Slice(buf, first_pos, p))>>
    IN  IF p = last THEN Assign(pos, p, ev1)
        ELSE IF At(buf, p) = 45
        THEN IF ~is_digit_func(flag, At(buf, p + 1)) THEN Res(FALSE, pos, ev1)
             ELSE The({ IF ~b.ok THEN Res(FALSE, pos, ev1)
                        ELSE Assign(pos, b.pos,
                                 Append(ev1, EvNumber("last_number", flag,
                                                      Slice(buf, p + 1, b.pos))))
                        : b \in {advance_func(flag, buf, p + 1, last)} })
        ELSE IF At(buf, p) = 46
        THEN The({ IF ~s.ok THEN Res(FALSE, pos, s.ev)
                   ELSE Assign(pos, s.pos,
                            Append(s.ev, EvNumber("last_number", flag, <<>>)))
                   : s \in {number_seq_loop(flag, buf, p, last, ev1)} })
        ELSE Assign(pos, p, ev1)

advance_number_value(buf, pos, last) ==
    IF pos = last THEN NoMatch(pos)
    ELSE IF At(buf, pos) # 37 THEN NoMatch(pos)
    ELSE IF pos + 1 = last THEN NoMatch(pos)
    ELSE IF number_flag(At(buf, pos + 1)) = "unspecified" THEN NoMatch(pos)
    ELSE IF pos + 2 = last THEN NoMatch(pos)
    ELSE The({ IF ~a.ok THEN NoMatch(pos)
               ELSE number_tail(number_flag(At(buf, pos + 1)), buf, pos, last,
                                pos + 2, a.pos)
               : a \in {advance_func(number_flag(At(buf, pos + 1)), buf,
                                     pos + 2, last)} })

(***************************************************************************)
(* Lexical productions of the ABNF combinator layer:                       *)
(*   comment = ";" *<non-CR-non-LF> CRLF    c-nl  = comment / CRLF         *)
(*   c-wsp   = WSP / (c-nl WSP)                                            *)
(* A line terminator is CR, LF or CRLF; a comment may end at end of text.  *)
(***************************************************************************)
RECURSIVE comment_loop(_, _, _)
comment_loop(buf, p, last) ==
    IF p # last /\ ~is_cr_char(At(buf, p)) /\ ~is_lf_char(At(buf, p))
    THEN comment_loop(buf, p + 1, last)
    ELSE p

advance_comment(buf, pos, last) ==
    IF pos = last THEN Ret(FALSE, pos)
    ELSE IF At(buf, pos) # 59 THEN Ret(FALSE, pos)
    ELSE The({ IF p = last THEN compare_and_assign(pos, p)
               ELSE compare_and_assign(pos, advance_newline(buf, p, last).pos)
               : p \in {comment_loop(buf, pos + 1, last)} })

advance_comment_newline(buf, pos, last) ==
    The({ IF c.ok THEN c ELSE advance_newline(buf, pos, last)
          : c \in {advance_comment(buf, pos, last)} })

advance_comment_whitespace(buf, pos, last) ==
    IF pos = last THEN Ret(FALSE, pos)
    ELSE IF is_whitespace_char(At(buf, pos)) THEN compare_and_assign(pos, pos + 1)
    ELSE The({ IF ~c.ok THEN Ret(FALSE, pos)
               ELSE IF c.pos = last THEN Ret(FALSE, pos)
               ELSE IF ~is_whitespace_char(At(buf, c.pos)) THEN Ret(FALSE, pos)
               ELSE compare_and_assign(pos, c.pos + 1)
               : c \in {advance_comment_newline(buf, pos, last)} })

(***************************************************************************)
(* generator.hpp: the repetition driver.  `op` names the operation that    *)
(* is repeated; it works on the caller's position directly.                *)
(***************************************************************************)
\* The lambda of the driver's test: one alphabetic character.
alpha_op(buf, pos, last) ==
    IF is_alpha(At(buf, pos)) THEN Ret(TRUE, pos + 1) ELSE Ret(FALSE, pos)

ApplyOp(op, buf, pos, last) ==
    CASE op = "alpha" -> alpha_op(buf, pos, last)
      [] op = "c_wsp" -> advance_comment_whitespace(buf, pos, last)
      [] OTHER -> Ret(FALSE, pos)

\* One of the two for-loops: at most n calls of op, stopped by the first
\* false; yields the position and the count of successful calls.
RECURSIVE repetition_loop(_, _, _, _, _, _)

\* A mutant: the loop does not count, it goes on until op returns false.
repetition_loop_uncounted(buf, pos, last, i, n, op) ==
    IF pos # last
    THEN The({ IF ~r.ok THEN [pos |-> r.pos, count |-> i]
               ELSE repetition_loop(buf, r.pos, last, i + 1, n, op)
               : r \in {ApplyOp(op, buf, pos, last)} })
    ELSE [pos |-> pos, count |-> i]

repetition_loop(buf, pos, last, i, n, op) ==
    IF pos # last /\ i < n
    THEN The({ IF ~r.ok THEN [pos |-> r.pos, count |-> i]
               ELSE repetition_loop(buf, r.pos, last, i + 1, n, op)
               : r \in {ApplyOp(op, buf, pos, last)} })
    ELSE [pos |-> pos, count |-> i]

advance_repetition_by_range(buf, pos, last, range, op) ==
    The({ IF lo.count # range[1] THEN Ret(FALSE, lo.pos)
          ELSE Ret(TRUE, repetition_loop(buf, lo.pos, last, 0, range[2], op).pos)
          : lo \in {repetition_loop(buf, pos, last, 0, range[1], op)} })

\* *c-wsp and 1*c-wsp
skip_c_wsp(buf, pos, last) ==
    advance_repetition_by_range(buf, pos, last, unlimited_range, "c_wsp").pos

(***************************************************************************)
(* Terminal productions of the ABNF combinator layer.                      *)
(***************************************************************************)
advance_prose(buf, pos, last) ==
    The({ IF r.ok
          THEN Res(TRUE, r.pos, <<EvText("prose", Slice(buf, pos + 1, r.pos - 1))>>)
          ELSE NoMatch(pos)
          : r \in {advance_prose_value(buf, pos, last)} })

advance_number(buf, pos, last) == advance_number_value(buf, pos, last)

\* A mutant: the space is not a character of a quoted string.
is_quoted_char_nospace(ch) == ch = 33 \/ (ch >= 35 /\ ch <= 126)

is_quoted_char(ch) == ch = 32 \/ ch = 33 \/ (ch >= 35 /\ ch <= 126)

\* The scan of a quoted string from its first inner character: the position
\* of the closing quote, or the error that stops the scan.
RECURSIVE quoted_loop(_, _, _, _, _)
quoted_loop(buf, p, last, len, max) ==
    IF p = last THEN [pos |-> p, code |-> "unbalanced_quote"]
    ELSE IF is_dquote_char(At(buf, p)) THEN [pos |-> p, code |-> "success"]
    ELSE IF ~is_quoted_char(At(buf, p)) THEN [pos |-> p, code |-> "bad_quoted_char"]
    ELSE IF max > 0 /\ len + 1 > max THEN [pos |-> p, code |-> "max_length_exceeded"]
    ELSE quoted_loop(buf, p + 1, last, len + 1, max)

\* A mutant: after an error the position stays where the scan stopped.
advance_quoted_string_moved(buf, pos, last, max) ==
    IF pos = last THEN NoMatch(pos)
    ELSE IF ~is_dquote_char(At(buf, pos)) THEN NoMatch(pos)
    ELSE The({ IF s.code # "success" THEN Res(FALSE, s.pos, <<EvError(s.code)>>)
               ELSE Res(TRUE, s.pos + 1,
                        <<EvText("quoted_string", Slice(buf, pos + 1, s.pos))>>)
               : s \in {quoted_loop(buf, pos + 1, last, 0, max)} })

advance_quoted_string(buf, pos, last, max) ==
    IF pos = last THEN NoMatch(pos)
    ELSE IF ~is_dquote_char(At(buf, pos)) THEN NoMatch(pos)
    ELSE The({ IF s.code # "success" THEN Res(FALSE, pos, <<EvError(s.code)>>)
               ELSE Res(TRUE, s.pos + 1,
                        <<EvText("quoted_string", Slice(buf, pos + 1, s.pos))>>)
               : s \in {quoted_loop(buf, pos + 1, last, 0, max)} })

is_rulename_char(ch) == is_alpha(ch) \/ is_digit_char(ch) \/ ch = 45

RECURSIVE rulename_loop(_, _, _)
rulename_loop(buf, p, last) ==
    IF p # last /\ is_rulename_char(At(buf, p))
    THEN rulename_loop(buf, p + 1, last)
    ELSE p

\* The match of a rulename alone; the rulename callback is for an element.
match_rulename(buf, pos, last) ==
    IF pos = last THEN Ret(FALSE, pos)
    ELSE IF ~is_alpha(At(buf, pos)) THEN Ret(FALSE, pos)
    ELSE compare_and_assign(pos, rulename_loop(buf, pos + 1, last))

advance_rulename(buf, pos, last) ==
    The({ IF r.ok THEN Res(TRUE, r.pos, <<EvText("rulename", Slice(buf, pos, r.pos))>>)
          ELSE NoMatch(pos)
          : r \in {match_rulename(buf, pos, last)} })

\* repeat = 1*DIGIT / (*DIGIT "*" *DIGIT)
\* The bounds of a repeat whose lower digits end at d1 and whose upper
\* digits, after a "*", end at d2.
\* A mutant: without upper digits the upper bound is the lower one.
repeat_bounds_exact(buf, pos, d1, d2, star) ==
    The({ <<lower, IF ~star \/ d2 = d1 + 1 THEN lower
                   ELSE to_decimal_number(Slice(buf, d1 + 1, d2))[1]>>
          : lower \in {IF d1 = pos THEN 0
                       ELSE to_decimal_number(Slice(buf, pos, d1))[1]} })

repeat_bounds(buf, pos, d1, d2, star) ==
    The({ <<lower, IF ~star THEN lower
                   ELSE IF d2 = d1 + 1 THEN LONG_MAX
                   ELSE to_decimal_number(Slice(buf, d1 + 1, d2))[1]>>
          : lower \in {IF d1 = pos THEN 0
                       ELSE to_decimal_number(Slice(buf, pos, d1))[1]} })

\* A mutant: the bounds are reported without being compared.
repeat_tail_unchecked(buf, pos, last, d1, star) ==
    The({ The({
        IF d1 = pos /\ ~star THEN NoMatch(pos)
        ELSE Assign(pos, d2, <<EvRepeat(range[1], range[2])>>)
        : range \in {repeat_bounds(buf, pos, d1, d2, star)} })
        : d2 \in {IF star THEN digits_loop("decimal", buf, d1 + 1, last) ELSE d1} })

\* The rest of a repeat whose lower digits end at d1; `star` tells whether
\* a "*" follows them.
repeat_tail(buf, pos, last, d1, star) ==
    The({ The({
        IF d1 = pos /\ ~star THEN NoMatch(pos)
        ELSE IF range[1] > range[2]
        THEN Res(FALSE, pos, <<EvError("bad_repeat_range")>>)
        ELSE Assign(pos, d2, <<EvRepeat(range[1], range[2])>>)
        : range \in {repeat_bounds(buf, pos, d1, d2, star)} })
        : d2 \in {IF star THEN digits_loop("decimal", buf, d1 + 1, last) ELSE d1} })

advance_repeat(buf, pos, last) ==
    IF pos = last THEN NoMatch(pos)
    ELSE The({ repeat_tail(buf, pos, last, d1, d1 # last /\ At(buf, d1) = 42)
               : d1 \in {digits_loop("decimal", buf, pos, last)} })

(***************************************************************************)
(* Aggregate productions of the ABNF combinator layer.  A begin_X callback *)
(* is made once the production is entered, the matching end_X(success)     *)
(* when it is left.                                                        *)
(***************************************************************************)
\* The builder context's answer: no limit on the length of a quoted string.
max_quoted_string_length == 0

RECURSIVE advance_alternation(_, _, _)

\* The inside of a group or an option and its closing bracket.
advance_bracket(buf, pos, last, kind, close) ==
    The({ The({ The({
        IF a.ok /\ p # last /\ At(buf, p) = close
        THEN Res(TRUE, p + 1,
                 <<Ev("begin_" \o kind)>> \o a.ev \o <<EvEnd("end_" \o kind, TRUE)>>)
        ELSE Res(FALSE, pos,
                 <<Ev("begin_" \o kind)>> \o a.ev \o <<EvEnd("end_" \o kind, FALSE)>>)
        : p \in {skip_c_wsp(buf, a.pos, last)} })
        : a \in {advance_alternation(buf, q, last)} })
        : q \in {skip_c_wsp(buf, pos + 1, last)} })

\* A mutant: a group may also open with the bracket of an option.
advance_group_lenient(buf, pos, last) ==
    IF pos = last THEN NoMatch(pos)
    ELSE IF At(buf, pos) \notin {40, 91} THEN NoMatch(pos)
    ELSE advance_bracket(buf, pos, last, "group", 41)

advance_group(buf, pos, last) ==
    IF pos = last THEN NoMatch(pos)
    ELSE IF At(buf, pos) # 40 THEN NoMatch(pos)
    ELSE advance_bracket(buf, pos, last, "group", 41)

advance_option(buf, pos, last) ==
    IF pos = last THEN NoMatch(pos)
    ELSE IF At(buf, pos) # 91 THEN NoMatch(pos)
    ELSE advance_bracket(buf, pos, last, "option", 93)

\* element = rulename / group / option / num-val / char-val / prose-val:
\* the first production that makes progress wins.
\* Tries production `which` of the element; `ev` holds the callbacks of the
\* productions tried before it.
RECURSIVE element_from(_, _, _, _, _)
element_from(buf, pos, last, which, ev) ==
    The({ IF r.ok THEN Res(TRUE, r.pos, ev \o r.ev)
          ELSE IF which = 6 THEN Res(FALSE, pos, ev \o r.ev)
          ELSE element_from(buf, pos, last, which + 1, ev \o r.ev)
          : r \in { CASE which = 1 -> advance_rulename(buf, pos, last)
                      [] which = 2 -> advance_group(buf, pos, last)
                      [] which = 3 -> advance_option(buf, pos, last)
                      [] which = 4 -> advance_number(buf, pos, last)
                      [] which = 5 -> advance_quoted_string(buf, pos, last,
                                          max_quoted_string_length)
                      [] OTHER     -> advance_prose(buf, pos, last) } })

advance_element(buf, pos, last) ==
    IF pos = last THEN NoMatch(pos) ELSE element_from(buf, pos, last, 1, <<>>)

\* A mutant: a repetition whose element fails is left without its
\* end_repetition callback.
advance_repetition_unclosed(buf, pos, last) ==
    IF pos = last THEN NoMatch(pos)
    ELSE The({ The({
            IF el.ok
            THEN Res(TRUE, el.pos, <<Ev("begin_repetition")>> \o rp.ev \o el.ev
                                   \o <<EvEnd("end_repetition", TRUE)>>)
            ELSE Res(FALSE, pos, <<Ev("begin_repetition")>> \o rp.ev \o el.ev)
            : el \in {advance_element(buf, rp.pos, last)} })
        : rp \in {advance_repeat(buf, pos, last)} })

\* repetition = [repeat] element
advance_repetition(buf, pos, last) ==
    IF pos = last THEN NoMatch(pos)
    ELSE The({
        IF ~rp.ok /\ rp.ev # <<>>
        THEN Res(FALSE, pos, <<Ev("begin_repetition")>> \o rp.ev
                             \o <<EvEnd("end_repetition", FALSE)>>)
        ELSE The({
            IF el.ok
            THEN Res(TRUE, el.pos, <<Ev("begin_repetition")>> \o rp.ev \o el.ev
                                   \o <<EvEnd("end_repetition", TRUE)>>)
            ELSE Res(FALSE, pos, <<Ev("begin_repetition")>> \o rp.ev \o el.ev
                                 \o <<EvEnd("end_repetition", FALSE)>>)
            : el \in {advance_element(buf, rp.pos, last)} })
        : rp \in {advance_repeat(buf, pos, last)} })

\* *(1*c-wsp repetition)
RECURSIVE concatenation_loop(_, _, _)

\* A mutant: the white space before a repetition that fails stays consumed.
concatenation_loop_greedy(buf, p, last) ==
    The({
        IF ~w.ok THEN [pos |-> p, ev |-> <<>>]
        ELSE The({
            IF ~r.ok THEN [pos |-> w.pos, ev |-> r.ev]
            ELSE The({ [pos |-> rest.pos, ev |-> r.ev \o rest.ev]
                       : rest \in {concatenation_loop(buf, r.pos, last)} })
            : r \in {advance_repetition(buf, w.pos, last)} })
        : w \in {advance_repetition_by_range(buf, p, last,
                                             make_range(1, INT_MAX), "c_wsp")} })

concatenation_loop(buf, p, last) ==
    The({
        IF ~w.ok THEN [pos |-> p, ev |-> <<>>]
        ELSE The({
            IF ~r.ok THEN [pos |-> p, ev |-> r.ev]
            ELSE The({ [pos |-> rest.pos, ev |-> r.ev \o rest.ev]
                       : rest \in {concatenation_loop(buf, r.pos, last)} })
            : r \in {advance_repetition(buf, w.pos, last)} })
        : w \in {advance_repetition_by_range(buf, p, last,
                                             make_range(1, INT_MAX), "c_wsp")} })

advance_concatenation(buf, pos, last) ==
    IF pos = last THEN NoMatch(pos)
    ELSE The({
        IF ~r.ok
        THEN Res(FALSE, pos, <<Ev("begin_concatenation")>> \o r.ev
                             \o <<EvEnd("end_concatenation", FALSE)>>)
        ELSE The({ Res(TRUE, l.pos, <<Ev("begin_concatenation")>> \o r.ev \o l.ev
                                    \o <<EvEnd("end_concatenation", TRUE)>>)
                   : l \in {concatenation_loop(buf, r.pos, last)} })
        : r \in {advance_repetition(buf, pos, last)} })

\* *(*c-wsp "/" *c-wsp concatenation)
RECURSIVE alternation_loop(_, _, _)
alternation_loop(buf, p, last) ==
    The({
        IF q = last THEN [pos |-> p, ev |-> <<>>]
        ELSE IF At(buf, q) # 47 THEN [pos |-> p, ev |-> <<>>]
        ELSE The({
            IF ~c.ok THEN [pos |-> p, ev |-> c.ev]
            ELSE The({ [pos |-> rest.pos, ev |-> c.ev \o rest.ev]
                       : rest \in {alternation_loop(buf, c.pos, last)} })
            : c \in {advance_concatenation(buf, skip_c_wsp(buf, q + 1, last), last)} })
        : q \in {skip_c_wsp(buf, p, last)} })

advance_alternation(buf, pos, last) ==
    IF pos = last THEN NoMatch(pos)
    ELSE The({
        IF ~c.ok
        THEN Res(FALSE, pos, <<Ev("begin_alternation")>> \o c.ev
                             \o <<EvEnd("end_alternation", FALSE)>>)
        ELSE The({ Res(TRUE, l.pos, <<Ev("begin_alternation")>> \o c.ev \o l.ev
                                    \o <<EvEnd("end_alternation", TRUE)>>)
                   : l \in {alternation_loop(buf, c.pos, last)} })
        : c \in {advance_concatenation(buf, pos, last)} })

\* defined-as = *c-wsp ("=" / "=/") *c-wsp
advance_defined_as(buf, pos, last) ==
    The({
        IF q = last THEN [ok |-> FALSE, pos |-> pos, inc |-> FALSE]
        ELSE IF At(buf, q) # 61 THEN [ok |-> FALSE, pos |-> pos, inc |-> FALSE]
        ELSE IF q + 1 # last /\ At(buf, q + 1) = 47
        THEN [ok |-> TRUE, pos |-> skip_c_wsp(buf, q + 2, last), inc |-> TRUE]
        ELSE [ok |-> TRUE, pos |-> skip_c_wsp(buf, q + 1, last), inc |-> FALSE]
        : q \in {skip_c_wsp(buf, pos, last)} })

\* elements = alternation *c-wsp
advance_elements(buf, pos, last) ==
    The({ IF a.ok THEN Res(TRUE, skip_c_wsp(buf, a.pos, last), a.ev) ELSE a
          : a \in {advance_alternation(buf, pos, last)} })

\* A mutant: only a c-nl closes a rule.
rule_body_closed(buf, pos, last, n, d) ==
    The({ The({
        IF e.ok /\ nl.ok
        THEN Res(TRUE, nl.pos,
                 <<EvBeginRule(Slice(buf, pos, n), d.inc)>> \o e.ev
                 \o <<EvEndRule(Slice(buf, pos, n), d.inc, TRUE)>>)
        ELSE Res(FALSE, pos,
                 <<EvBeginRule(Slice(buf, pos, n), d.inc)>> \o e.ev
                 \o <<EvEndRule(Slice(buf, pos, n), d.inc, FALSE)>>)
        : nl \in {advance_comment_newline(buf, e.pos, last)} })
        : e \in {advance_elements(buf, d.pos, last)} })

\* rule = rulename defined-as elements c-nl ; the end of the text stands
\* for the closing c-nl of the last rule.
\* The body of a rule named [pos, n) after its defined-as d.
rule_body(buf, pos, last, n, d) ==
    The({ The({
        IF e.ok /\ (e.pos = last \/ nl.ok)
        THEN Res(TRUE, IF e.pos = last THEN e.pos ELSE nl.pos,
                 <<EvBeginRule(Slice(buf, pos, n), d.inc)>> \o e.ev
                 \o <<EvEndRule(Slice(buf, pos, n), d.inc, TRUE)>>)
        ELSE Res(FALSE, pos,
                 <<EvBeginRule(Slice(buf, pos, n), d.inc)>> \o e.ev
                 \o <<EvEndRule(Slice(buf, pos, n), d.inc, FALSE)>>)
        : nl \in {advance_comment_newline(buf, e.pos, last)} })
        : e \in {advance_elements(buf, d.pos, last)} })

advance_rule(buf, pos, last) ==
    The({
        IF ~n.ok THEN NoMatch(pos)
        ELSE The({ IF ~d.ok THEN NoMatch(pos)
                   ELSE rule_body(buf, pos, last, n.pos, d)
                   : d \in {advance_defined_as(buf, n.pos, last)} })
        : n \in {match_rulename(buf, pos, last)} })

\* rulelist = 1*( rule / (*c-wsp c-nl) )
RECURSIVE rulelist_loop(_, _, _)
rulelist_loop(buf, p, last) ==
    IF p = last THEN [pos |-> p, ev |-> <<>>]
    ELSE The({
        IF r.ok
        THEN The({ [pos |-> rest.pos, ev |-> r.ev \o rest.ev]
                   : rest \in {rulelist_loop(buf, r.pos, last)} })
        ELSE The({
            IF nl.ok
            THEN The({ [pos |-> rest.pos, ev |-> r.ev \o rest.ev]
                       : rest \in {rulelist_loop(buf, nl.pos, last)} })
            ELSE [pos |-> p, ev |-> r.ev]
            : nl \in {advance_comment_newline(buf, skip_c_wsp(buf, p, last), last)} })
        : r \in {advance_rule(buf, p, last)} })

advance_rulelist(buf, pos, last) ==
    The({ Assign(pos, l.pos, l.ev) : l \in {rulelist_loop(buf, pos, last)} })

(***************************************************************************)
(* abnf/syntax_tree.hpp: the nodes of the syntax tree.                     *)
(* A node is a record; `element` holds the inner node of a repetition      *)
(* (empty for a null pointer), `siblings` the children of an aggregate.    *)
(***************************************************************************)
basic_node(type) ==
    [type |-> type, text |-> <<>>, flag |-> "unspecified", is_range |-> FALSE,
     value |-> <<>>, from |-> 1, to |-> 1, element |-> <<>>, siblings |-> <<>>,
     name |-> <<>>]

is_aggregate_node(node) ==
    node.type \in {"rule", "group", "option", "concatenation", "alternation",
                   "rulelist"}

string_node(type, text) == [basic_node(type) EXCEPT !.text = text]

number_node(flag) == [basic_node("number") EXCEPT !.flag = flag]

\* The operations of a number node; `ok` is false when an assertion fails.
set_first(node, text) ==
    [ok |-> Len(node.value) = 0, node |-> [node EXCEPT !.value = Append(@, text)]]

\* A mutant: the node is marked a range but the second value is not stored.
set_last_unstored(node, text) ==
    [ok |-> Len(node.value) = 1, node |-> [node EXCEPT !.is_range = TRUE]]

set_last(node, text) ==
    [ok |-> Len(node.value) = 1,
     node |-> [node EXCEPT !.is_range = TRUE, !.value = Append(@, text)]]

push_next(node, text) ==
    [ok |-> Len(node.value) > 0 /\ ~node.is_range,
     node |-> [node EXCEPT !.value = Append(@, text)]]

set_range(node, from, to) == [node EXCEPT !.from = from, !.to = to]

set_element(node, elem) == [node EXCEPT !.element = elem]

push_back(node, item) == [node EXCEPT !.siblings = Append(@, item)]

(***************************************************************************)
(* abnf/syntax_tree.hpp: syntax_tree_context.  The stack is a sequence,    *)
(* its top the last element.  An operation yields the new stack and `ok`,  *)
(* false when one of its assertions fails.                                 *)
(***************************************************************************)
Top(s) == s[Len(s)]

Pop(s) == SubSeq(s, 1, Len(s) - 1)

SetTop(s, node) == [s EXCEPT ![Len(s)] = node]

Done(s) == [stack |-> s, ok |-> TRUE]

AssertionFailed(s) == [stack |-> s, ok |-> FALSE]

check_aggregate_node(s) == s # <<>> /\ is_aggregate_node(Top(s))

check_number_node(s) == s # <<>> /\ Top(s).type = "number"

check_repetition_node(s) == s # <<>> /\ Top(s).type = "repetition"

\* A mutant: the popped node is pushed into its parent also on failure.
end_aggregate_component_keep(s, success) ==
    IF s = <<>> THEN AssertionFailed(s)
    ELSE IF ~check_aggregate_node(Pop(s)) THEN AssertionFailed(Pop(s))
    ELSE Done(SetTop(Pop(s), push_back(Top(Pop(s)), Top(s))))

end_aggregate_component(s, success) ==
    IF s = <<>> THEN AssertionFailed(s)
    ELSE IF ~success THEN Done(Pop(s))
    ELSE IF ~check_aggregate_node(Pop(s)) THEN AssertionFailed(Pop(s))
    ELSE Done(SetTop(Pop(s), push_back(Top(Pop(s)), Top(s))))

\* prose, quoted_string and rulename: a leaf becomes the element of the
\* repetition on top.
set_leaf(s, type, text) ==
    IF ~check_repetition_node(s) THEN AssertionFailed(s)
    ELSE Done(SetTop(s, set_element(Top(s), <<string_node(type, text)>>)))

ctx_first_number(s, flag, text) ==
    LET num == set_first(number_node(flag), text)
    IN  IF num.ok THEN Done(Append(s, num.node)) ELSE AssertionFailed(s)

\* The number is taken through a reference to the popped top of the
\* stack: `moved` is what that reference yields, the number or nothing.
ctx_last_number(s, text, moved) ==
    IF ~check_number_node(s) THEN AssertionFailed(s)
    ELSE LET num == IF text # <<>> THEN set_last(Top(s), text)
                    ELSE push_next(Top(s), text)
         IN  IF ~num.ok THEN AssertionFailed(s)
             ELSE IF ~check_repetition_node(Pop(s)) THEN AssertionFailed(Pop(s))
             ELSE Done(SetTop(Pop(s),
                       set_element(Top(Pop(s)), IF moved THEN <<num.node>> ELSE <<>>)))

ctx_next_number(s, text) ==
    IF ~check_number_node(s) THEN AssertionFailed(s)
    ELSE LET num == push_next(Top(s), text)
         IN  IF num.ok THEN Done(SetTop(s, num.node)) ELSE AssertionFailed(s)

\* A mutant: the group is appended to the siblings of the node on top.
end_bracket_sibling(s, success) ==
    IF s = <<>> THEN AssertionFailed(s)
    ELSE IF ~success THEN Done(Pop(s))
    ELSE IF ~check_repetition_node(Pop(s)) THEN AssertionFailed(Pop(s))
    ELSE Done(SetTop(Pop(s), push_back(Top(Pop(s)), Top(s))))

\* end_group and end_option
end_bracket(s, success) ==
    IF s = <<>> THEN AssertionFailed(s)
    ELSE IF ~success THEN Done(Pop(s))
    ELSE IF ~check_repetition_node(Pop(s)) THEN AssertionFailed(Pop(s))
    ELSE Done(SetTop(Pop(s), set_element(Top(Pop(s)), <<Top(s)>>)))

ctx_repeat(s, from, to) ==
    IF ~check_repetition_node(s) THEN AssertionFailed(s)
    ELSE Done(SetTop(s, set_range(Top(s), from, to)))

ctx_begin_rule(s, name, is_incremental_alternatives) ==
    IF is_incremental_alternatives THEN Done(s)
    ELSE Done(Append(s, basic_node("rule")))

ctx_end_rule(s, name, is_incremental_alternatives, success) ==
    IF is_incremental_alternatives THEN Done(s)
    ELSE end_aggregate_component(s, success)

\* rules_count() reads the rulelist through the pointer kept at construction;
\* the rulelist is the bottom of the stack.
rules_count(s) == Len(s[1].siblings)

(***************************************************************************)
(* Traversal of the finished tree by a visitor.  A callback of the visitor *)
(* has a name and the texts it is called with.                             *)
(***************************************************************************)
Visit(k, text, to) == [k |-> k, text |-> text, to |-> to]

\* A mutant: the children are visited last to first.
visit_reversed(node) ==
    [i \in 1..Len(node.siblings) |-> node.siblings[Len(node.siblings) + 1 - i]]

\* aggregate_node::visit: the children in the order the visitor is applied
\* to them, that of _siblings.
visit(node) == node.siblings

\* A number is a range of two values or a sequence of values.
visit_number(node) ==
    IF node.is_range /\ Len(node.value) >= 2
    THEN <<Visit("number_range", node.value[1], node.value[2])>>
    ELSE [i \in 1..Len(node.value) |-> Visit("number", node.value[i], <<>>)]

RECURSIVE traverse_node(_)

\* The callbacks for the first n of the nodes.
RECURSIVE traverse_nodes(_, _)
traverse_nodes(nodes, n) ==
    IF n = 0 THEN <<>>
    ELSE traverse_nodes(nodes, n - 1) \o traverse_node(nodes[n])

\* The callbacks for a node and what is below it, depth first.  A
\* repetition without element has nothing below it.
traverse_node(node) ==
    CASE node.type = "rulelist" ->
            <<Visit("begin_document", <<>>, <<>>)>>
            \o traverse_nodes(visit(node), Len(node.siblings))
            \o <<Visit("end_document", <<>>, <<>>)>>
      [] node.type = "rule" ->
            <<Visit("begin_rule", node.name, <<>>)>>
            \o traverse_nodes(visit(node), Len(node.siblings))
            \o <<Visit("end_rule", <<>>, <<>>)>>
      [] node.type \in {"alternation", "concatenation", "group", "option"} ->
            <<Visit("begin_" \o node.type, <<>>, <<>>)>>
            \o traverse_nodes(visit(node), Len(node.siblings))
            \o <<Visit("end_" \o node.type, <<>>, <<>>)>>
      [] node.type = "repetition" ->
            <<Visit("begin_repetition", <<>>, <<>>)>>
            \o traverse_nodes(node.element, Len(node.element))
            \o <<Visit("end_repetition", <<>>, <<>>)>>
      [] node.type = "number" -> visit_number(node)
      [] OTHER -> <<Visit(node.type, node.text, <<>>)>>

\* The traversal reads the element of a repetition that has none.
RECURSIVE reads_null(_)
reads_null(node) ==
    \/ node.type = "repetition" /\ node.element = <<>>
    \/ \E i \in DOMAIN node.element : reads_null(node.element[i])
    \/ \E i \in DOMAIN node.siblings : reads_null(node.siblings[i])

(***************************************************************************)
(* line_counter_iterator.hpp: an iterator that counts lines.  `it` is the  *)
(* position of the wrapped iterator in the text.                           *)
(***************************************************************************)
\* line_counter_iterator (ForwardIterator initial)
line_counter_iterator(initial) == [lineno |-> 1, it |-> initial, is_CR |-> FALSE]

\* A mutant: the copy starts counting afresh.
copy_constructor_fresh(rhs) == [lineno |-> 1, it |-> rhs.it, is_CR |-> FALSE]

\* line_counter_iterator (line_counter_iterator const & rhs): _is_CR is not
\* among the members copied and keeps its default.
copy_constructor(rhs) == [lineno |-> rhs.lineno, it |-> rhs.it, is_CR |-> FALSE]

\* operator ++ ().  `_is_CR == true;` compares and assigns nothing, so on a
\* CR the flag stays as it was.  The character read after the step is the
\* one at the new position, which may be the end of the text.
increment(buf, i) ==
    The({ [lineno |-> IF \/ At(buf, i.it + 1) = 13
                         \/ (At(buf, i.it + 1) = 10 /\ ~cr)
                      THEN i.lineno + 1 ELSE i.lineno,
           it     |-> i.it + 1,
           is_CR  |-> cr]
          : cr \in { IF At(buf, i.it) = 13 THEN i.is_CR ELSE FALSE } })

\* A mutant: two iterators are equal when they also count the same lines.
equal_counting(a, b) == a.it = b.it /\ a.lineno = b.lineno

\* operator == (line_counter_iterator const & other)
equal(a, b) == a.it = b.it

(***************************************************************************)
(* The state: a grammar text, the position of the caller in it, the        *)
(* callbacks advance_rulelist makes on it and how many of them the builder *)
(* context has handled, the construction stack of the context, the errors  *)
(* reported to it, and the last combinator called directly on the text.    *)
(***************************************************************************)
VARIABLES input, eos, pos, call, trace, idx, stack, errors, pc, it, copy,
          visited

vars == <<input, eos, pos, call, trace, idx, stack, errors, pc, it, copy, visited>>

buffer == Append(input, eos)

last == Len(input) + 1

NoCall ==
    [name |-> "none", ok |-> FALSE, from |-> 1, reported |-> FALSE, veto |-> 0,
     max |-> 0, range |-> <<0, 0>>, op |-> "none", value |-> 0]

\* Lines of grammar text; "n" spells LF and "q" the double quote.
Lines ==
    { Str(<<"R", " ", "=", " ", "a", "n">>),
      Str(<<"R", "=", "b", " ", ";", "a", "n">>),
      Str(<<"S", "=", "q", "a", "q", "n">>),
      Str(<<"R", "=", "/", "c", "n">>),
      Str(<<"R", "=", "a", " ", "/", " ", "b", "n">>),
      Str(<<"R", "=", "%", "b", "1", "n">>),
      Str(<<"S", "=", "%", "b", "0", "0", "-", "1", "1", "n">>),
      Str(<<"S", "=", "%", "b", "0", ".", "1", ".", "1", "1", "n">>),
      Str(<<"R", " ", "=", " ", "%", "b", "1", "-", "n">>),
      Str(<<"S", "=", "2", "*", "(", "a", ")", " ", "[", "b", "]", "n">>),
      Str(<<"S", "=", "<", "a", ">", "n">>),
      Str(<<";", "a", "n">>),
      Str(<<"S", "=", "q", "a", "n">>),
      Str(<<"S", "=", "2", "*", "1", "a", "n">>),
      Str(<<"R", "=", "/", "%", "b", "1", "-", "n">>),
      Str(<<"S", "=", "(", "a", "n">>) }

RECURSIVE Texts(_)
Texts(n) ==
    IF n = 0 THEN {<<>>}
    ELSE Texts(n - 1) \cup {t \o l : t \in Texts(n - 1), l \in Lines}

\* A fresh context holds the rulelist alone; the text is a std::string,
\* whose end iterator reads as NUL.
\* The grammar of one rule `WSP = " " / "\t" ; white space` and its newline,
\* the second literal being a backslash and a `t`.
WSP ==
    <<87, 83, 80, 32, 61, 32, 34, 32, 34, 32, 47, 32, 34, 92, 116, 34, 32, 59, 32,
      119, 104, 105, 116, 101, 32, 115, 112, 97, 99, 101, 10>>

Init ==
    /\ input \in Texts(MaxLines) \cup {WSP}
    /\ eos = 0
    /\ pos = 1
    /\ call = NoCall
    /\ trace = advance_rulelist(Append(input, 0), 1, Len(input) + 1).ev
    /\ idx = 0
    /\ stack = <<basic_node("rulelist")>>
    /\ errors = <<>>
    /\ pc = "parsing"
    /\ it = line_counter_iterator(1)
    /\ copy = line_counter_iterator(1)
    /\ visited = <<>>

\* The callback advance_rulelist makes next.
event == trace[idx + 1]

Deliver(k) == pc = "parsing" /\ idx < Len(trace) /\ event.k = k

Apply(r) ==
    /\ stack' = r.stack
    /\ pc' = IF r.ok THEN "parsing" ELSE "aborted"
    /\ idx' = idx + 1
    /\ UNCHANGED <<input, eos, pos, call, trace, errors, it, copy, visited>>

error ==
    /\ Deliver("error")
    /\ errors' = Append(errors, event.code)
    /\ idx' = idx + 1
    /\ UNCHANGED <<input, eos, pos, call, trace, stack, pc, it, copy, visited>>

prose == Deliver("prose") /\ Apply(set_leaf(stack, "prose", event.text))

quoted_string ==
    Deliver("quoted_string") /\ Apply(set_leaf(stack, "quoted_string", event.text))

rulename == Deliver("rulename") /\ Apply(set_leaf(stack, "rulename", event.text))

first_number ==
    Deliver("first_number") /\ Apply(ctx_first_number(stack, event.flag, event.text))

last_number ==
    /\ Deliver("last_number")
    /\ \E moved \in BOOLEAN : Apply(ctx_last_number(stack, event.text, moved))

next_number == Deliver("next_number") /\ Apply(ctx_next_number(stack, event.text))

begin_group == Deliver("begin_group") /\ Apply(Done(Append(stack, basic_node("group"))))

end_group == Deliver("end_group") /\ Apply(end_bracket(stack, event.success))

begin_option ==
    Deliver("begin_option") /\ Apply(Done(Append(stack, basic_node("option"))))

end_option == Deliver("end_option") /\ Apply(end_bracket(stack, event.success))

repeat == Deliver("repeat") /\ Apply(ctx_repeat(stack, event.from, event.to))

begin_repetition ==
    Deliver("begin_repetition") /\ Apply(Done(Append(stack, basic_node("repetition"))))

end_repetition ==
    Deliver("end_repetition") /\ Apply(end_aggregate_component(stack, event.success))

begin_alternation ==
    Deliver("begin_alternation") /\ Apply(Done(Append(stack, basic_node("alternation"))))

end_alternation ==
    Deliver("end_alternation") /\ Apply(end_aggregate_component(stack, event.success))

begin_concatenation ==
    /\ Deliver("begin_concatenation")
    /\ Apply(Done(Append(stack, basic_node("concatenation"))))

end_concatenation ==
    Deliver("end_concatenation") /\ Apply(end_aggregate_component(stack, event.success))

begin_rule == Deliver("begin_rule") /\ Apply(ctx_begin_rule(stack, event.text, event.inc))

end_rule ==
    Deliver("end_rule") /\ Apply(ctx_end_rule(stack, event.text, event.inc, event.success))

\* advance_rulelist returns: the caller's position is where it stopped.
Finish ==
    /\ pc = "parsing"
    /\ idx = Len(trace)
    /\ \E r \in {advance_rulelist(buffer, 1, last)} :
          /\ pc' = IF r.ok THEN "accepted" ELSE "rejected"
          /\ pos' = r.pos
    /\ UNCHANGED <<input, eos, call, trace, idx, stack, errors, it, copy, visited>>

\* syntax_tree.traverse(visitor), on the tree of an accepted grammar, as
\* often as the caller likes.  Reading the element of a repetition that has
\* none is undefined: the traversal may go on without it or end the program.
traverse ==
    /\ pc \in {"accepted", "traversed"}
    /\ \/ /\ pc' = "traversed"
          /\ visited' = traverse_node(stack[1])
       \/ /\ reads_null(stack[1])
          /\ pc' = "crashed"
          /\ visited' = <<>>
    /\ UNCHANGED <<input, eos, pos, call, trace, idx, stack, errors, it, copy>>

Next ==
    \/ error \/ prose \/ quoted_string \/ rulename
    \/ first_number \/ last_number \/ next_number
    \/ begin_group \/ end_group \/ begin_option \/ end_option
    \/ repeat \/ begin_repetition \/ end_repetition
    \/ begin_alternation \/ end_alternation
    \/ begin_concatenation \/ end_concatenation
    \/ begin_rule \/ end_rule \/ Finish \/ traverse

Spec == Init /\ [][Next]_vars

(***************************************************************************)
(* The combinators called one at a time, as the unit tests call them: on   *)
(* a text held in a std::vector<char>, whose end iterator must not be      *)
(* read, so `eos` is whatever such a read yields.  `call` records the last *)
(* call, `trace` the callbacks it made and `pos` the caller's position     *)
(* after it.                                                               *)
(***************************************************************************)
Alphabet == {Ch("%"), Ch("b"), Ch("1"), Ch("-"), Ch("<"), Ch(">"), Ch("a")}

RECURSIVE Words(_)
Words(n) ==
    IF n = 0 THEN {<<>>}
    ELSE Words(n - 1) \cup {Append(w, c) : w \in Words(n - 1), c \in Alphabet}

\* Which callback of a call returns false: none, the first or the second.
Vetoes == 0..2

\* The rule `r = [p] e`, which no newline follows.
LastRule == <<114, 32, 61, 32, 91, 112, 93, 32, 101>>

\* Texts of the unit tests.
Vectors ==
    { Str(<<"q", "a", "q">>), Str(<<"q", "a">>), Str(<<"q", "u", "q">>),
      Str(<<"2", "*", "1", "a">>), Str(<<"*", "a">>), Str(<<"1", "*", "2", "a">>),
      Str(<<"(", "a", ")">>), Str(<<"(", ")">>), Str(<<"[", "a", "]">>),
      Str(<<"a", " ", "b">>), Str(<<"a", " ", "/", "t", "b">>),
      Str(<<" ", "=", "/", " ">>), Str(<<"R", " ", "=", " ", "a", "n">>),
      Str(<<";", "a", "n">>), Str(<<"r", "n">>), Str(<<" ", "n", " ">>),
      Str(<<"%", "d", "1", ".", "2">>), Str(<<"%", "x", "1", ".">>),
      Str(<<"9">>), Str(<<"a", "b", "c">>),
      Str(<<"%", "b", "1", "-", "a">>), Str(<<"%", "b", "1">>),
      Str(<<"%", "b", "0", "-", "1", ".", "1">>),
      Str(<<"%", "b", "0", ".", "1", "-", "1">>),
      Str(<<"q", "a", "b", "q">>), Str(<<"q", "q">>), Str(<<"q", " ", "q">>),
      Str(<<"1", "0", "*", "2", "0">>), Str(<<"1", "0", "*">>),
      Str(<<"*", "1", "0">>), Str(<<"*">>),
      Str(<<";", "a">>), LastRule, Str(<<"a", " ">>),
      Str(<<"r">>), Str(<<"r", "a">>), Str(<<"n", "r">>) }

InitComb ==
    /\ input \in Words(MaxLen) \cup Vectors
    /\ eos \in {Ch("z"), Ch("1"), Ch("."), Ch("n")}
    /\ pos = 1
    /\ call = NoCall
    /\ trace = <<>>
    /\ idx = 0
    /\ stack = <<>>
    /\ errors = <<>>
    /\ pc = "combinators"
    /\ it = line_counter_iterator(1)
    /\ copy = line_counter_iterator(1)
    /\ visited = <<>>

\* A call of combinator `name` at the caller's position with result r, on
\* a context whose callback number `veto` returns false (0: none does) and
\* whose max_quoted_string_length() is `max`.
CalledWith(name, r, veto, max) ==
    /\ pc = "combinators"
    /\ call' = [name |-> name, ok |-> r.ok, from |-> pos,
                reported |-> \E i \in DOMAIN r.ev : r.ev[i].k = "error",
                veto |-> veto, max |-> max, range |-> <<0, 0>>, op |-> "none",
                value |-> 0]
    /\ trace' = r.ev
    /\ pos' = r.pos
    /\ UNCHANGED <<input, eos, idx, stack, errors, pc, it, copy, visited>>

Called(name, r) == CalledWith(name, r, 0, 0)

\* The result of an advancer that makes no callbacks.
Plain(r) == Res(r.ok, r.pos, <<>>)

Call_prose_value ==
    \E r \in {Plain(advance_prose_value(buffer, pos, last))} : Called("prose_value", r)

\* advance_number_value makes its callbacks as statements: what they return
\* is not read, so the result is the same whichever of them returns false.
Call_number_value ==
    \E veto \in Vetoes :
        \E r \in {advance_number_value(buffer, pos, last)} :
            CalledWith("number_value", r, veto, 0)

Call_newline ==
    \E r \in {Plain(advance_newline(buffer, pos, last))} : Called("newline", r)

\* A position behind `last` is no position of the text: nothing can be
\* called with it.
Call_internet_newline ==
    \E r \in {advance_internet_newline(buffer, pos, last)} :
        /\ pc = "combinators"
        /\ call' = [NoCall EXCEPT !.name = "internet_newline", !.ok = r.ok,
                                  !.from = pos]
        /\ trace' = <<>>
        /\ pos' = r.pos
        /\ pc' = IF r.pos > last THEN "crashed" ELSE pc
        /\ UNCHANGED <<input, eos, idx, stack, errors, it, copy, visited>>

Call_linear_whitespace ==
    \E r \in {Plain(advance_linear_whitespace(buffer, pos, last))} :
        Called("linear_whitespace", r)

\* The ranges of the driver's test, and one that asks for two matches.
Ranges == {<<0, 1>>, <<1, 2>>, <<1, 0>>, <<2, 3>>}

\* `call` keeps the range and the matcher of the call.
Call_repetition_by_range ==
    \E range \in Ranges, op \in {"alpha", "c_wsp"} :
        \E r \in {advance_repetition_by_range(buffer, pos, last, range, op)} :
            /\ pc = "combinators"
            /\ call' = [NoCall EXCEPT !.name = "repetition_by_range", !.ok = r.ok,
                                      !.from = pos, !.range = range, !.op = op]
            /\ trace' = <<>>
            /\ pos' = r.pos
            /\ UNCHANGED <<input, eos, idx, stack, errors, pc, it, copy, visited>>

Call_prose == \E r \in {advance_prose(buffer, pos, last)} : Called("prose", r)

Call_number == \E r \in {advance_number(buffer, pos, last)} : Called("number", r)

Call_quoted_string ==
    \E max \in {0, 1} :
        \E r \in {advance_quoted_string(buffer, pos, last, max)} :
            CalledWith("quoted_string", r, 0, max)

Call_repeat == \E r \in {advance_repeat(buffer, pos, last)} : Called("repeat", r)

Call_comment ==
    \E r \in {Plain(advance_comment(buffer, pos, last))} : Called("comment", r)

Call_comment_newline ==
    \E r \in {Plain(advance_comment_newline(buffer, pos, last))} : Called("c_nl", r)

Call_comment_whitespace ==
    \E r \in {Plain(advance_comment_whitespace(buffer, pos, last))} :
        Called("c_wsp", r)

Call_rulename == \E r \in {advance_rulename(buffer, pos, last)} : Called("rulename", r)

Call_element == \E r \in {advance_element(buffer, pos, last)} : Called("element", r)

Call_repetition ==
    \E r \in {advance_repetition(buffer, pos, last)} : Called("repetition", r)

Call_concatenation ==
    \E r \in {advance_concatenation(buffer, pos, last)} : Called("concatenation", r)

Call_alternation ==
    \E r \in {advance_alternation(buffer, pos, last)} : Called("alternation", r)

Call_group == \E r \in {advance_group(buffer, pos, last)} : Called("group", r)

Call_option == \E r \in {advance_option(buffer, pos, last)} : Called("option", r)

Call_defined_as ==
    \E r \in {Plain(advance_defined_as(buffer, pos, last))} : Called("defined_as", r)

Call_elements == \E r \in {advance_elements(buffer, pos, last)} : Called("elements", r)

Call_rule == \E r \in {advance_rule(buffer, pos, last)} : Called("rule", r)

Call_rulelist == \E r \in {advance_rulelist(buffer, pos, last)} : Called("rulelist", r)

NextComb ==
    \/ Call_prose_value \/ Call_number_value \/ Call_newline
    \/ Call_linear_whitespace \/ Call_repetition_by_range \/ Call_internet_newline
    \/ Call_prose \/ Call_number \/ Call_quoted_string \/ Call_repeat
    \/ Call_comment \/ Call_comment_newline \/ Call_comment_whitespace
    \/ Call_rulename \/ Call_element \/ Call_repetition \/ Call_concatenation
    \/ Call_alternation \/ Call_group \/ Call_option \/ Call_defined_as
    \/ Call_elements \/ Call_rule \/ Call_rulelist

SpecComb == InitComb /\ [][NextComb]_vars

(***************************************************************************)
(* The iterator used as the parser and the tests use it: advanced one      *)
(* character at a time, copied to save a position and assigned back to     *)
(* restore it.  `call` names the last operation.                           *)
(***************************************************************************)
MaxText == 4

\* An ordinary character, CR and LF.
LineAlphabet == {Ch("a"), Ch("r"), Ch("n")}

RECURSIVE LineTexts(_)
LineTexts(n) ==
    IF n = 0 THEN {<<>>}
    ELSE LineTexts(n - 1) \cup {Append(w, c) : w \in LineTexts(n - 1), c \in LineAlphabet}

\* operator ++ reads the character at the end of the text when it steps
\* there: `eos` is what that read yields.
InitIter ==
    /\ input \in LineTexts(MaxText)
    /\ eos \in {Ch("z"), Ch("n")}
    /\ pos = 1
    /\ call = NoCall
    /\ trace = <<>>
    /\ idx = 0
    /\ stack = <<>>
    /\ errors = <<>>
    /\ pc = "iterating"
    /\ it = line_counter_iterator(1)
    /\ copy = copy_constructor(line_counter_iterator(1))
    /\ visited = <<>>

Operated(name) ==
    /\ pc = "iterating"
    /\ call' = [NoCall EXCEPT !.name = name]
    /\ UNCHANGED <<input, eos, pos, trace, idx, stack, errors, pc, visited>>

\* ++first
Increment ==
    /\ it.it # last
    /\ it' = increment(buffer, it)
    /\ UNCHANGED copy
    /\ Operated("increment")

\* ++saved
IncrementCopy ==
    /\ copy.it # last
    /\ copy' = increment(buffer, copy)
    /\ UNCHANGED it
    /\ Operated("increment_copy")

\* auto saved = first
Copy ==
    /\ copy' = copy_constructor(it)
    /\ UNCHANGED it
    /\ Operated("copy")

\* first = saved, by the implicit copy assignment, which copies every member
Restore ==
    /\ it' = copy
    /\ UNCHANGED copy
    /\ Operated("assign")

NextIter == Increment \/ IncrementCopy \/ Copy \/ Restore

SpecIter == InitIter /\ [][NextIter]_vars

(***************************************************************************)
(* to_decimal_number applied to a text from any of its positions.  The     *)
(* texts are the short ones over a few digits and a letter, and the digit  *)
(* strings around LONG_MAX.                                                *)
(***************************************************************************)
MaxDigits == 3

\* The digits of n, a natural number.
RECURSIVE Digits(_)
Digits(n) ==
    IF n < 10 THEN <<48 + n>> ELSE Append(Digits(n \div 10), 48 + (n % 10))

RECURSIVE DigitTexts(_)
DigitTexts(n) ==
    IF n = 0 THEN {<<>>}
    ELSE DigitTexts(n - 1)
         \cup {Append(w, c) : w \in DigitTexts(n - 1),
                              c \in {Ch("0"), Ch("1"), Ch("9"), Ch("a")}}

\* LONG_MAX, LONG_MAX + 1, LONG_MAX + 2 and the next multiple of ten.
Limits ==
    { Digits(LONG_MAX),
      Append(Digits(LONG_MAX \div 10), 49 + (LONG_MAX % 10)),
      Append(Digits(LONG_MAX \div 10), Ch("9")),
      Append(Digits(LONG_MAX \div 10 + 1), Ch("0")) }

InitDec ==
    /\ input \in DigitTexts(MaxDigits) \cup Limits
    /\ eos \in {Ch("z"), Ch("1")}
    /\ pos = 1
    /\ call = NoCall
    /\ trace = <<>>
    /\ idx = 0
    /\ stack = <<>>
    /\ errors = <<>>
    /\ pc = "converting"
    /\ it = line_counter_iterator(1)
    /\ copy = line_counter_iterator(1)
    /\ visited = <<>>

\* to_decimal_number (first, last); `call` keeps the pair it returns.  A
\* negative value comes from the signed overflow of `result += digit` alone,
\* which is undefined: the sum wraps around, or the build traps and the
\* program ends.
Call_to_decimal_number ==
    \E first \in 1..last :
        \E r \in {to_decimal_number(Slice(buffer, first, last))} :
            /\ pc = "converting"
            /\ call' = [NoCall EXCEPT !.name = "to_decimal_number", !.ok = r[2],
                                      !.from = first, !.value = r[1]]
            /\ pc' \in IF r[1] < 0 THEN {"converting", "crashed"} ELSE {"converting"}
            /\ UNCHANGED <<input, eos, pos, trace, idx, stack, errors, it, copy,
                           visited>>

NextDec == Call_to_decimal_number

SpecDec == InitDec /\ [][NextDec]_vars

(***************************************************************************)
(* Properties of the combinators.                                          *)
(***************************************************************************)
Combinators ==
    {"prose", "number", "quoted_string", "repeat", "comment", "c_nl", "c_wsp",
     "rulename", "element", "repetition", "concatenation", "alternation",
     "group", "option", "defined_as", "elements", "rule", "rulelist",
     "prose_value", "number_value"}

\* C1: a combinator that returns false without reporting a grammar error
\* leaves the caller's position where it was before the call.
C1_NonProgressOnFailure ==
    (call.name \in Combinators /\ ~call.ok /\ ~call.reported) => pos = call.from

\* A number that fails after its first digit run was matched and reported.
C1_Witness ==
    /\ call.name = "number_value" /\ ~call.ok /\ ~call.reported
    /\ Len(trace) = 1 /\ trace[1].k = "first_number"
    /\ pos = call.from

Advancers ==
    {"prose_value", "number_value", "newline", "linear_whitespace",
     "repetition_by_range"}

\* C2: an advancer that returns true has moved the position by at least
\* one character.
C2_AdvancerProgress == (call.name \in Advancers /\ call.ok) => pos > call.from

(***************************************************************************)
(* Properties of a parse driven through the builder context.               *)
(***************************************************************************)
Finished == pc \in {"accepted", "rejected"}

Begins ==
    {"begin_rule", "begin_alternation", "begin_concatenation",
     "begin_repetition", "begin_group", "begin_option"}

Ends ==
    {"end_rule", "end_alternation", "end_concatenation", "end_repetition",
     "end_group", "end_option"}

KindOf(k) ==
    CASE k \in {"begin_rule", "end_rule"} -> "rule"
      [] k \in {"begin_alternation", "end_alternation"} -> "alternation"
      [] k \in {"begin_concatenation", "end_concatenation"} -> "concatenation"
      [] k \in {"begin_repetition", "end_repetition"} -> "repetition"
      [] k \in {"begin_group", "end_group"} -> "group"
      [] k \in {"begin_option", "end_option"} -> "option"
      [] OTHER -> "leaf"

\* The number of begin_X callbacks still open after the callback tr[i].
Depth(tr, i) ==
    Cardinality({j \in 1..i : tr[j].k \in Begins})
        - Cardinality({j \in 1..i : tr[j].k \in Ends})

\* The begin_X callback that the end_X callback tr[j] closes: the latest one
\* before it that is still open; 0 when there is none.
Opener(tr, j) ==
    IF \E i \in 1..(j - 1) : tr[i].k \in Begins /\ Depth(tr, i) = Depth(tr, j) + 1
    THEN CHOOSE i \in 1..(j - 1) :
            /\ tr[i].k \in Begins /\ Depth(tr, i) = Depth(tr, j) + 1
            /\ \A m \in (i + 1)..(j - 1) :
                   ~(tr[m].k \in Begins /\ Depth(tr, m) = Depth(tr, j) + 1)
    ELSE 0

\* The callbacks tr form a properly nested tree.
Balanced(tr) ==
    /\ \A i \in 1..Len(tr) : Depth(tr, i) >= 0
    /\ \A i \in 1..Len(tr) : KindOf(tr[i].k) = "leaf" => Depth(tr, i) >= 1
    /\ \A j \in 1..Len(tr) :
           tr[j].k \in Ends =>
               /\ Opener(tr, j) # 0
               /\ KindOf(tr[Opener(tr, j)].k) = KindOf(tr[j].k)
    /\ Len(tr) > 0 => Depth(tr, Len(tr)) = 0

\* C3: on an accepted text the begin_X / end_X callbacks are balanced: each
\* end_X closes the latest open begin_X of its kind, every other callback
\* lies inside a begin_X .. end_X, and nothing is left open at the end.
C3_BalancedCallbacks == pc = "accepted" => Balanced(trace)

\* An accepted text with a failed repetition inside a rule and a group.
C3_Witness ==
    /\ pc = "accepted"
    /\ \E i \in DOMAIN trace : trace[i].k = "end_repetition" /\ ~trace[i].success
    /\ \E i \in DOMAIN trace : trace[i].k = "end_group" /\ trace[i].success

\* C4: when the parse has finished, accepted or rejected, the stack holds
\* exactly one node, the rulelist.
C4_SingleRulelistAtFinish ==
    Finished => (Len(stack) = 1 /\ stack[1].type = "rulelist")

\* C5: no callback finds another node on top of the stack than the one it
\* expects, nor an empty stack: no assertion of the builder fails.
C5_NoAssertionFails == pc # "aborted"

\* The names of the rules defined so far by a successful `=` definition.
DefinedNames ==
    {trace[i].text : i \in {j \in 1..idx : /\ trace[j].k = "end_rule"
                                           /\ trace[j].success
                                           /\ ~trace[j].inc}}

Reported(code) == \E i \in DOMAIN errors : errors[i] = code

RuleNodes == SelectSeq(stack[1].siblings, LAMBDA n : n.type = "rule")

\* C6: begin_rule for a `=` definition of a name the rulelist already
\* holds reports rulename_duplicated and pushes nothing, and the rulelist
\* never holds two rules of one name.
C6_DuplicateRuleRejected ==
    /\ [][(begin_rule /\ ~event.inc /\ event.text \in DefinedNames)
            => (stack' = stack /\ Reported("rulename_duplicated")')]_vars
    /\ [](\A i, j \in DOMAIN RuleNodes :
            i # j => RuleNodes[i].name # RuleNodes[j].name)

\* C7: begin_rule for a `=/` definition of a name the rulelist does not
\* hold reports rule_undefined, pushes nothing and leaves the rulelist as
\* it is.
C7_UndefinedIncrementalRejected ==
    [][(begin_rule /\ event.inc /\ event.text \notin DefinedNames)
         => (stack' = stack /\ Reported("rule_undefined")')]_vars

IncrementalText ==
    Str(<<"R", "=", "a", " ", "/", " ", "b", "n">>) \o Str(<<"R", "=", "/", "c", "n">>)

\* The rulenames a rule lists as its alternatives, in order; <<>> when an
\* alternative is not a single rulename.
Alternatives(rule) ==
    IF /\ Len(rule.siblings) = 1
       /\ rule.siblings[1].type = "alternation"
       /\ \A c \in DOMAIN rule.siblings[1].siblings :
            /\ Len(rule.siblings[1].siblings[c].siblings) = 1
            /\ Len(rule.siblings[1].siblings[c].siblings[1].element) = 1
    THEN [c \in DOMAIN rule.siblings[1].siblings |->
             rule.siblings[1].siblings[c].siblings[1].element[1].text]
    ELSE <<>>

\* C8: after `R = a / b` and `R =/ c` the rulelist holds the single rule R
\* with the alternatives a, b, c in this order.
C8_IncrementalAppends ==
    (pc = "accepted" /\ input = IncrementalText)
        => /\ Len(stack[1].siblings) = 1
           /\ stack[1].siblings[1].type = "rule"
           /\ Alternatives(stack[1].siblings[1]) = <<Str(<<"a">>), Str(<<"b">>), Str(<<"c">>)>>

\* C9: after an accepted parse rules_count() is the number of distinct
\* names defined with `=`; definitions with `=/` do not count.
C9_RulesCount == pc = "accepted" => rules_count(stack) = Cardinality(DefinedNames)

\* The next callback belongs to a `=` definition whose end_rule carries
\* success = false.
InFailedNewRule ==
    /\ pc = "parsing"
    /\ \E j \in (idx + 1)..Len(trace) :
          /\ trace[j].k = "end_rule" /\ ~trace[j].success /\ ~trace[j].inc
          /\ \A i \in (idx + 1)..(j - 1) : trace[i].k # "end_rule"

\* C10: no callback of a failed `=` definition changes the rulelist: the
\* failed rule is not added and the rules completed before it stay as
\* they are.
C10_FailedRuleNotAdded == [][InFailedNewRule => stack'[1] = stack[1]]_vars

\* The end_rule of a failed `=` definition was handled while the rulelist
\* holds a rule completed before it.
C10_Witness ==
    /\ idx > 0 /\ trace[idx].k = "end_rule"
    /\ ~trace[idx].success /\ ~trace[idx].inc
    /\ rules_count(stack) = 1 /\ stack[1].siblings[1].type = "rule"

\* The text of the dangling range: R = %b1- and a newline.
DanglingRange == Str(<<"R", " ", "=", " ", "%", "b", "1", "-", "n">>)

\* C11: on the text `R = %b1-` and a newline the parse fails, the position
\* it stops at is not behind the trailing `-`, and the rulelist holds no rule.
C11_DanglingRangeFails ==
    (input = DanglingRange /\ pc # "parsing") =>
        /\ pc = "rejected"
        /\ pos <= 8
        /\ rules_count(stack) = 0

\* The parse of the dangling range has returned.
C11_Witness == input = DanglingRange /\ Finished /\ idx = Len(trace) /\ idx > 0

\* The combinators of the terminal elements, which make leaf callbacks.
Terminals ==
    {"prose", "number", "number_value", "quoted_string", "repeat", "rulename"}

\* C12: a call of a terminal combinator that ends as a non-match (false, no
\* error reported, position rolled back) has made no callback; this includes
\* a number whose `-` or `.` is not followed by a digit.
C12_NoCallbackOnNonMatch ==
    (call.name \in Terminals /\ ~call.ok /\ ~call.reported /\ pos = call.from)
        => trace = <<>>

\* C13: when a callback returns false the combinator that made it returns
\* false and makes no further callback.
C13_CallbackFalseAborts ==
    (call.name \in Combinators /\ call.veto \in 1..Len(trace)) =>
        (~call.ok /\ Len(trace) = call.veto)

\* The callbacks of a successful call of the number combinator.
NumberMatched == call.name \in {"number", "number_value"} /\ call.ok

\* C14: a matched number makes one first_number, then next_number callbacks,
\* then one last_number, whose text is empty unless the number is a range.
C14_NumberCallbackOrder ==
    NumberMatched =>
        /\ Len(trace) >= 2
        /\ trace[1].k = "first_number"
        /\ trace[Len(trace)].k = "last_number"
        /\ \A i \in 2..(Len(trace) - 1) : trace[i].k = "next_number"
        /\ (trace[Len(trace)].text # <<>>) <=>
               (Len(trace) = 2 /\ At(buffer, call.from + 2 + Len(trace[1].text)) = 45)

\* The builder has just handled the last_number callback of a number.
NumberClosed == pc = "parsing" /\ idx > 0 /\ trace[idx].k = "last_number"

\* The first_number callback of the number that callback i belongs to.
NumberStart(i) ==
    CHOOSE j \in 1..i :
        /\ trace[j].k = "first_number"
        /\ \A m \in (j + 1)..i : trace[m].k # "first_number"

\* The values the text of the number closed by callback i spells: both ends
\* of a range, or the members of a sequence.
NumberValues(i) ==
    IF trace[i].text # <<>> THEN <<trace[NumberStart(i)].text, trace[i].text>>
    ELSE [m \in 1..(i - NumberStart(i)) |-> trace[NumberStart(i) + m - 1].text]

\* C15: once a number is complete the repetition on top of the stack has it
\* as its element, as a range of the two values of `%b00-11` or as a sequence
\* of the three values of `%b0.1.11`, and likewise for every matched number.
C15_NumberNodeBuilt ==
    NumberClosed =>
        /\ Top(stack).type = "repetition"
        /\ Len(Top(stack).element) = 1
        /\ Top(stack).element[1].type = "number"
        /\ Top(stack).element[1].is_range = (trace[idx].text # <<>>)
        /\ Top(stack).element[1].value = NumberValues(idx)

\* A node and all the nodes below it.
RECURSIVE Nodes(_)
Nodes(node) ==
    {node} \cup UNION {Nodes(node.siblings[i]) : i \in DOMAIN node.siblings}
           \cup UNION {Nodes(node.element[i]) : i \in DOMAIN node.element}

\* The number nodes the builder holds, on its stack or inside a node of it.
NumberNodes ==
    {n \in UNION {Nodes(stack[i]) : i \in DOMAIN stack} : n.type = "number"}

WellFormedNumber(n) ==
    IF n.is_range THEN Len(n.value) = 2 ELSE Len(n.value) >= 1

\* The number callback at hand meets the assertions of the number_node
\* operation it calls.
NumberAssertionsMet ==
    /\ first_number => set_first(number_node(event.flag), event.text).ok
    /\ (next_number /\ check_number_node(stack))
           => push_next(Top(stack), event.text).ok
    /\ (last_number /\ check_number_node(stack))
           => IF event.text # <<>> THEN set_last(Top(stack), event.text).ok
              ELSE push_next(Top(stack), event.text).ok

\* C16: every number node is a range of exactly two values or a sequence of
\* at least one, and no callback calls set_first on a non-empty node,
\* set_last on a node without exactly one value or push_next on a range.
C16_NumberNodeShape ==
    /\ [](\A n \in NumberNodes : WellFormedNumber(n))
    /\ [][NumberAssertionsMet]_vars

\* A range and a sequence of several values, both inside the rulelist.
C16_Witness ==
    /\ \E n \in Nodes(stack[1]) : n.type = "number" /\ n.is_range
    /\ \E n \in Nodes(stack[1]) :
           n.type = "number" /\ ~n.is_range /\ Len(n.value) > 2

\* The text the last call consumed.
Consumed == Slice(buffer, call.from, pos)

RangeThenDot == Str(<<"%", "b", "0", "-", "1", ".", "1">>)

SequenceThenDash == Str(<<"%", "b", "0", ".", "1", "-", "1">>)

\* C17: a matched number does not hold both a `-` and a `.`: it stops before
\* the `.1` that follows the range `%b0-1` and before the `-1` that follows
\* the sequence `%b0.1`, and it makes no next_number together with a
\* last_number that carries a text.
C17_NoMixedNumber ==
    NumberMatched =>
        /\ ~(/\ \E i \in DOMAIN Consumed : Consumed[i] = 45
             /\ \E i \in DOMAIN Consumed : Consumed[i] = 46)
        /\ ~(/\ \E i \in DOMAIN trace : trace[i].k = "next_number"
             /\ \E i \in DOMAIN trace :
                    trace[i].k = "last_number" /\ trace[i].text # <<>>)
        /\ (input \in {RangeThenDot, SequenceThenDash} /\ call.from = 1) => pos = 6

\* The range `%b0-1` matched at the head of `%b0-1.1`.
C17_Witness ==
    /\ NumberMatched /\ input = RangeThenDot /\ call.from = 1
    /\ Len(trace) = 2 /\ trace[2].k = "last_number" /\ trace[2].text = Str(<<"1">>)

\* The last call was advance_quoted_string at an opening quote.
QuotedCalled ==
    /\ call.name = "quoted_string"
    /\ call.from < last /\ buffer[call.from] = 34

\* The characters a quoted string may hold: %x20-21 / %x23-7E.
QuotedChars == {32, 33} \cup 35..126

\* The place of the quote that closes the literal opened at call.from, or
\* the end of the text when there is none.
ClosingQuote ==
    IF \E j \in (call.from + 1)..(last - 1) : buffer[j] = 34
    THEN CHOOSE j \in (call.from + 1)..(last - 1) :
            /\ buffer[j] = 34
            /\ \A i \in (call.from + 1)..(j - 1) : buffer[i] # 34
    ELSE last

\* The characters after the opening quote, up to the closing one.
Literal == Slice(buffer, call.from + 1, ClosingQuote)

LiteralClean == \A i \in DOMAIN Literal : Literal[i] \in QuotedChars

LiteralFits == call.max = 0 \/ Len(Literal) <= call.max

\* The one callback of the last call is the report of error `code`.
ReportedOnly(code) ==
    Len(trace) = 1 /\ trace[1].k = "error" /\ trace[1].code = code

\* C18: advance_quoted_string reports unbalanced_quote on an unterminated
\* literal, bad_quoted_char on a character outside %x20-21 / %x23-7E,
\* max_length_exceeded on a literal longer than a limit that is not 0; each
\* time it returns false, makes no quoted_string callback and leaves the
\* position at the opening quote.
C18_QuotedStringErrors ==
    QuotedCalled =>
        /\ (LiteralClean /\ LiteralFits /\ ClosingQuote = last)
               => ReportedOnly("unbalanced_quote")
        /\ (~LiteralClean /\ call.max = 0) => ReportedOnly("bad_quoted_char")
        /\ (LiteralClean /\ ~LiteralFits) => ReportedOnly("max_length_exceeded")
        /\ call.max = 0 => ~ReportedOnly("max_length_exceeded")
        /\ call.reported =>
               /\ ~call.ok /\ pos = call.from
               /\ \E code \in {"unbalanced_quote", "bad_quoted_char",
                               "max_length_exceeded"} : ReportedOnly(code)

\* The literal "ab" refused by a limit of one character.
C18_Witness ==
    /\ QuotedCalled /\ call.max = 1 /\ Literal = Str(<<"a", "b">>)
    /\ ReportedOnly("max_length_exceeded") /\ pos = call.from

\* C19: with no limit on the length, advance_quoted_string succeeds exactly
\* on DQUOTE *(%x20-21 / %x23-7E) DQUOTE, the empty literal included; it
\* then stops right behind the closing quote and its one callback carries
\* the characters between the quotes.
C19_QuotedStringMatch ==
    (call.name = "quoted_string" /\ call.max = 0) =>
        /\ call.ok <=> (QuotedCalled /\ ClosingQuote # last /\ LiteralClean)
        /\ call.ok =>
               /\ pos = ClosingQuote + 1
               /\ Len(trace) = 1 /\ trace[1].k = "quoted_string"
               /\ trace[1].text = Literal

\* The empty literal matched.
C19_Witness ==
    /\ call.name = "quoted_string" /\ call.ok /\ call.max = 0
    /\ input = Str(<<"q", "q">>) /\ pos = last
    /\ trace[1].text = <<>>

\* The end of the run of decimal digits that starts at position i.
DigitsEnd(i) ==
    CHOOSE j \in i..last :
        /\ \A m \in i..(j - 1) : buffer[m] \in 48..57
        /\ j = last \/ buffer[j] \notin 48..57

\* The number a run of decimal digits spells.
RECURSIVE Decimal(_)
Decimal(t) ==
    IF t = <<>> THEN 0
    ELSE 10 * Decimal(SubSeq(t, 1, Len(t) - 1)) + (t[Len(t)] - 48)

\* The parts of the repeat prefix at the place of the last call: the end of
\* its lower digits, whether a `*` follows them, the end of the prefix.
LowerEnd == DigitsEnd(call.from)

Starred == LowerEnd < last /\ buffer[LowerEnd] = 42

RepeatEnd == IF Starred THEN DigitsEnd(LowerEnd + 1) ELSE LowerEnd

\* The bounds the prefix spells; LONG_MAX stands for "no limit".
LowerBound ==
    IF LowerEnd = call.from THEN 0
    ELSE Decimal(Slice(buffer, call.from, LowerEnd))

UpperBound ==
    IF ~Starred THEN LowerBound
    ELSE IF RepeatEnd = LowerEnd + 1 THEN LONG_MAX
    ELSE Decimal(Slice(buffer, LowerEnd + 1, RepeatEnd))

\* C20: advance_repeat reports (N, N) for `N`, (N, no limit) for `N*`,
\* (0, M) for `*M`, (0, no limit) for `*` and (N, M) for `N*M`, and consumes
\* the repeat prefix and nothing else; on `*x` it consumes the `*` alone.
C20_RepeatBounds ==
    (/\ call.name = "repeat" /\ call.from < last
     /\ RepeatEnd > call.from /\ LowerBound <= UpperBound) =>
        /\ call.ok /\ pos = RepeatEnd
        /\ Len(trace) = 1 /\ trace[1].k = "repeat"
        /\ trace[1].from = LowerBound /\ trace[1].to = UpperBound

\* The prefix `*` of `*a`, and nothing of the `a`.
C20_Witness ==
    /\ call.name = "repeat" /\ call.ok /\ call.from = 1
    /\ input = Str(<<"*", "a">>) /\ pos = 2
    /\ trace[1].from = 0 /\ trace[1].to = LONG_MAX

\* C21: a repeat prefix N*M with N > M is reported as bad_repeat_range and
\* advance_repeat returns false; no combinator ever makes a repeat callback
\* whose lower bound exceeds its upper bound.
C21_BadRepeatRange ==
    /\ (/\ call.name = "repeat" /\ call.from < last
        /\ RepeatEnd > call.from /\ LowerBound > UpperBound)
           => (~call.ok /\ ReportedOnly("bad_repeat_range"))
    /\ \A i \in DOMAIN trace : trace[i].k = "repeat" => trace[i].from <= trace[i].to

\* The prefix 2*1 of `2*1a` refused.
C21_Witness ==
    /\ call.name = "repeat" /\ call.from = 1 /\ input = Str(<<"2", "*", "1", "a">>)
    /\ ~call.ok /\ ReportedOnly("bad_repeat_range")

\* The builder has just handled end_repetition(true).
RepetitionAttached ==
    pc = "parsing" /\ idx > 0 /\ trace[idx].k = "end_repetition" /\ trace[idx].success

\* The node end_repetition has just attached: the last child of the top.
Attached == Top(stack).siblings[Len(Top(stack).siblings)]

\* C22: a repetition that end_repetition(true) has attached holds exactly
\* one element, and its bounds are (1, 1) unless a repeat callback came
\* between its begin_repetition and its end_repetition.
C22_RepetitionNode ==
    RepetitionAttached =>
        /\ Top(stack).siblings # <<>>
        /\ Attached.type = "repetition"
        /\ Len(Attached.element) = 1
        /\ (\A m \in Opener(trace, idx)..idx : trace[m].k # "repeat")
               => (Attached.from = 1 /\ Attached.to = 1)

(***************************************************************************)
(* C23: the productions of an element exclude each other.                  *)
(***************************************************************************)
\* The six productions of an element tried at the position of the last
\* call, in the order of the grammar.
Productions ==
    <<advance_rulename(buffer, call.from, last),
      advance_group(buffer, call.from, last),
      advance_option(buffer, call.from, last),
      advance_number(buffer, call.from, last),
      advance_quoted_string(buffer, call.from, last, max_quoted_string_length),
      advance_prose(buffer, call.from, last)>>

\* The orders in which six productions can be tried.
Orders == Permutations(1..6)

\* The callbacks of the first n productions of alts tried in order o.
RECURSIVE TriedEvents(_, _, _)
TriedEvents(alts, o, n) ==
    IF n = 0 THEN <<>> ELSE TriedEvents(alts, o, n - 1) \o alts[o[n]].ev

\* The element tried in order o: the first production that matches wins.
InOrder(alts, o) ==
    IF call.from = last THEN NoMatch(call.from)
    ELSE IF \E i \in 1..6 : alts[o[i]].ok
    THEN The({ Res(TRUE, alts[o[i]].pos, TriedEvents(alts, o, i))
               : i \in { j \in 1..6 : /\ alts[o[j]].ok
                                      /\ \A k \in 1..(j - 1) : ~alts[o[k]].ok } })
    ELSE Res(FALSE, call.from, TriedEvents(alts, o, 6))

\* C23: at the position of a call of advance_element at most one of the six
\* productions matches, and in whatever order they are tried the result, the
\* position reached and the callbacks made are those of advance_element.
C23_ElementUnambiguous ==
    call.name = "element" =>
        \A alts \in {Productions} :
            /\ Cardinality({ w \in 1..6 : alts[w].ok }) <= 1
            /\ \A o \in Orders :
                   InOrder(alts, o) = Res(call.ok, pos, trace)

\* An element matched by its fourth production, after three others failed.
C23_Witness ==
    /\ call.name = "element" /\ call.ok
    /\ At(buffer, call.from) = Ch("%")
    /\ trace # <<>>
    /\ pos > call.from

(***************************************************************************)
(* C24 - C26: the line counter.                                            *)
(***************************************************************************)
\* The line terminators before position p: every LF, and every CR that no
\* LF follows.
Terminators(p) ==
    Cardinality({ j \in 1..(p - 1) :
        \/ input[j] = 10
        \/ (input[j] = 13 /\ ~(j < Len(input) /\ input[j + 1] = 10)) })

\* C24: wherever the iterator stands, lineno() is one more than the number
\* of line terminators it has passed, a CR LF pair counting once.
C24_LinenoCountsTerminators ==
    pc = "iterating" => it.lineno = 1 + Terminators(it.it)

\* C25: a copy reports the line of the original when it is taken, the two
\* report the same line whenever they have been advanced to the same
\* position, and assigning the copy back restores the line it holds.
C25_CopyKeepsLine ==
    pc = "iterating" =>
        /\ call.name = "copy" => (copy.it = it.it /\ copy.lineno = it.lineno)
        /\ copy.it = it.it => copy.lineno = it.lineno
        /\ call.name = "assign" => (it.it = copy.it /\ it.lineno = copy.lineno)

\* A position past the first line has been restored from the copy.
C25_Witness ==
    pc = "iterating" /\ call.name = "assign" /\ it.lineno > 1 /\ it.it # last

RangeCalled == call.name = "repetition_by_range" /\ call.op = "alpha"

\* C27: when advance_repetition_by_range returns true, the matcher has
\* succeeded at least range.first and at most range.second times.
C27_RepetitionWithinRange ==
    (RangeCalled /\ call.ok) =>
        /\ pos - call.from >= call.range[1]
        /\ pos - call.from <= call.range[2]

\* C28: when advance_repetition_by_range returns false, the position is the
\* one it was called with.
C28_FailedRepetitionRestores ==
    (RangeCalled /\ ~call.ok) => pos = call.from

(***************************************************************************)
(* C29, C30: traversal.                                                    *)
(***************************************************************************)
\* The builder after callback e of a visitor is handed on to it: the
\* visitor is told neither the bounds of a repetition nor the flag of a
\* number, and the values of a sequence one by one, `more` to follow.
Feed(s, e, more) ==
    CASE e.k \in {"begin_document", "end_document"} -> s
      [] e.k = "begin_rule" -> ctx_begin_rule(s, e.text, FALSE).stack
      [] e.k = "end_rule" -> ctx_end_rule(s, <<>>, FALSE, TRUE).stack
      [] e.k = "begin_group" -> Append(s, basic_node("group"))
      [] e.k = "begin_option" -> Append(s, basic_node("option"))
      [] e.k = "begin_alternation" -> Append(s, basic_node("alternation"))
      [] e.k = "begin_concatenation" -> Append(s, basic_node("concatenation"))
      [] e.k = "begin_repetition" -> Append(s, basic_node("repetition"))
      [] e.k \in {"end_group", "end_option"} -> end_bracket(s, TRUE).stack
      [] e.k \in {"end_alternation", "end_concatenation", "end_repetition"} ->
            end_aggregate_component(s, TRUE).stack
      [] e.k = "number_range" ->
            ctx_last_number(ctx_first_number(s, "unspecified", e.text).stack,
                            e.to, TRUE).stack
      [] e.k = "number" ->
            The({ IF more THEN n ELSE ctx_last_number(n, <<>>, TRUE).stack
                  : n \in { IF s # <<>> /\ Top(s).type = "number"
                            THEN ctx_next_number(s, e.text).stack
                            ELSE ctx_first_number(s, "unspecified", e.text).stack } })
      [] OTHER -> set_leaf(s, e.k, e.text).stack

\* A fresh builder fed the first n callbacks.
RECURSIVE Rebuild(_, _)
Rebuild(events, n) ==
    IF n = 0 THEN <<basic_node("rulelist")>>
    ELSE The({ Feed(s, events[n], n < Len(events) /\ events[n + 1].k = "number")
               : s \in {Rebuild(events, n - 1)} })

\* C29: a fresh builder fed the callbacks of a traversal holds a tree equal
\* to the one traversed.
C29_RoundTrip ==
    pc = "traversed" => Rebuild(visited, Len(visited))[1] = stack[1]

IsLeaf(e) == e.k \in {"rulename", "prose", "quoted_string"}

\* The leaves among callbacks, in order, each with its text.
Leaves(events) ==
    The({ [i \in DOMAIN l |-> <<l[i].k, l[i].text>>] : l \in {SelectSeq(events, IsLeaf)} })

\* The callback trace[i] lies inside a production that was closed without
\* success: the builder has dropped what it made of it.
Dropped(i) ==
    \E j \in (i + 1)..Len(trace) :
        /\ trace[j].k \in Ends /\ ~trace[j].success
        /\ Opener(trace, j) # 0 /\ Opener(trace, j) < i

\* The leaves the parser delivered inside productions that succeeded, in
\* order.
KeptLeaves ==
    The({ [n \in 1..Cardinality(S) |->
              The({ <<trace[i].k, trace[i].text>> :
                    i \in {m \in S : Cardinality({q \in S : q < m}) = n - 1} })]
          : S \in {{i \in DOMAIN trace : IsLeaf(trace[i]) /\ ~Dropped(i)}} })

Times(k) == Cardinality({ i \in DOMAIN trace : trace[i].k = k })

\* C31: a parse that has returned made begin_document once, as its first
\* callback, and end_document once, as its last; and the builder holds no
\* rulelist before begin_document has been delivered to it.
C31_DocumentCallbacks ==
    /\ (pc = "parsing" /\ idx = 0) => stack = <<>>
    /\ pc \in {"accepted", "rejected"} =>
           /\ trace # <<>>
           /\ Times("begin_document") = 1 /\ trace[1].k = "begin_document"
           /\ Times("end_document") = 1 /\ trace[Len(trace)].k = "end_document"

\* The callbacks of a traversal of the one rule of the grammar WSP, as the
\* grammar gives them: an alternation of two concatenations, each of one
\* repetition of a quoted string.
WSPEvents ==
    <<Visit("begin_rule", <<87, 83, 80>>, <<>>),
      Visit("begin_alternation", <<>>, <<>>),
      Visit("begin_concatenation", <<>>, <<>>),
      Visit("begin_repetition", <<>>, <<>>),
      Visit("quoted_string", <<32>>, <<>>),
      Visit("end_repetition", <<>>, <<>>),
      Visit("end_concatenation", <<>>, <<>>),
      Visit("begin_concatenation", <<>>, <<>>),
      Visit("begin_repetition", <<>>, <<>>),
      Visit("quoted_string", <<92, 116>>, <<>>),
      Visit("end_repetition", <<>>, <<>>),
      Visit("end_concatenation", <<>>, <<>>),
      Visit("end_alternation", <<>>, <<>>),
      Visit("end_rule", <<>>, <<>>)>>

\* The alternations of the tree's first rule, and their concatenations.
Alternations == SelectSeq(stack[1].siblings[1].siblings, LAMBDA n : n.type = "alternation")

\* C32: once the grammar WSP is parsed, the tree has one rule whose one
\* alternation holds two concatenations, and a traversal makes, between
\* begin_document and end_document, the fourteen callbacks of that rule in
\* order, begin_rule carrying the name WSP.
C32_SingleRuleEvents ==
    (input = WSP /\ pc = "traversed") =>
        /\ rules_count(stack) = 1
        /\ Len(Alternations) = 1
        /\ Len(Alternations[1].siblings) = 2
        /\ \A i \in 1..2 : Alternations[1].siblings[i].type = "concatenation"
        /\ visited = <<Visit("begin_document", <<>>, <<>>)>> \o WSPEvents
                     \o <<Visit("end_document", <<>>, <<>>)>>

\* The text with a newline more, and its buffer.
Closed == input \o <<10, eos>>

\* A comment starts at the call's position and no line terminator follows.
CommentToEnd ==
    /\ call.from < last
    /\ input[call.from] = 59
    /\ \A i \in (call.from + 1)..(last - 1) : input[i] \notin {10, 13}

\* With a newline more, one rule and its closing newline would take the text
\* from the call's position to its end.
RuleToEnd ==
    \E r \in {advance_rule(Closed, call.from, last + 1)} :
        r.ok /\ r.pos = last + 1

\* C33: a comment that runs to the end of the text, and a rule that the end
\* of the text follows where a newline would close it, are matched whole:
\* advance_comment, advance_rule and advance_rulelist return true at `last`.
C33_EndOfInputClosesRule ==
    /\ (call.name = "comment" /\ CommentToEnd) => (call.ok /\ pos = last)
    /\ (call.name \in {"rule", "rulelist"} /\ RuleToEnd) => (call.ok /\ pos = last)

C33_Witness ==
    /\ input = LastRule /\ call.name = "rulelist" /\ call.from = 1
    /\ RuleToEnd /\ call.ok /\ pos = 10

\* The characters a separator of operands is made of: white space, the line
\* terminators of a comment or newline inside c-wsp, and the slash.
Separator == {32, 9, 10, 13, 47}

Sequenced == call.name \in {"concatenation", "alternation"} /\ call.ok

\* C34: a concatenation or alternation that matched stops right after its
\* last repetition, never after a separator: the character before the
\* position belongs to a repetition; `a ` is taken up to 1 character, `a b`
\* to 3 and `a /<tab>b` to 5 by the alternation.
C34_NoTrailingSeparator ==
    Sequenced =>
        /\ pos > call.from
        /\ input[pos - 1] \notin Separator
        /\ (input = Str(<<"a", " ">>) /\ call.from = 1) => pos = 2
        /\ (input = Str(<<"a", " ", "b">>) /\ call.from = 1) => pos = 4
        /\ (input = Str(<<"a", " ", "/", "t", "b">>) /\ call.from = 1) =>
               pos = IF call.name = "alternation" THEN 6 ELSE 2

\* A separator follows the first operand and nothing follows the separator.
C34_Witness ==
    /\ Sequenced /\ input = Str(<<"a", " ">>) /\ call.from = 1 /\ pos = 2
    /\ call.name = "concatenation"

\* The callback delivered next closes a group, an option, a concatenation or
\* an alternation.
Closing ==
    /\ pc = "parsing" /\ idx < Len(trace) /\ idx' = idx + 1
    /\ event.k \in {"end_group", "end_option", "end_concatenation", "end_alternation"}

\* The node `parent` with `child` as its newest child: the element of a
\* repetition, the last sibling of any other node.
Adopted(parent, child) ==
    IF parent.type = "repetition"
    THEN [parent EXCEPT !.element = <<child>>]
    ELSE [parent EXCEPT !.siblings = Append(@, child)]

\* C35: end_group, end_option, end_concatenation and end_alternation pop the
\* node on top; with success the node then on top gets it as its newest child
\* and nothing else changes; without, the popped node is dropped and the
\* stack below it is as it was.
C35_EndPopsAndAttaches ==
    [][Closing =>
          /\ stack # <<>>
          /\ pc' = "parsing"
          /\ IF event.success
             THEN /\ Len(stack) >= 2
                  /\ stack' = SetTop(Pop(stack), Adopted(Top(Pop(stack)), Top(stack)))
             ELSE stack' = Pop(stack)]_vars

\* A group was closed with success, in a rule now in the rulelist, and the
\* last callback closed one without: the repetition on top has no element.
C35_Witness ==
    /\ pc = "parsing" /\ idx > 1
    /\ trace[idx].k = "end_group" /\ ~trace[idx].success
    /\ Top(stack).type = "repetition" /\ Top(stack).element = <<>>
    /\ \E i \in 1..idx : trace[i].k = "end_group" /\ trace[i].success
    /\ rules_count(stack) = 1


\* The last callback delivered closed, without success, a `=/` definition of
\* a name that a `=` definition had defined.
FailedIncremental ==
    /\ pc = "parsing" /\ idx > 0
    /\ trace[idx].k = "end_rule" /\ trace[idx].inc /\ ~trace[idx].success
    /\ trace[idx].text \in DefinedNames

\* C36: when a `=/` definition of a defined rule R has failed, R is out of
\* the rulelist: the rulelist holds one rule less than the names defined
\* before it.
C36_FailedIncrementalDropsRule ==
    FailedIncremental =>
        /\ rules_count(stack) = Cardinality(DefinedNames) - 1
        /\ Len(RuleNodes) = Cardinality(DefinedNames) - 1

\* The length of the line terminator the text has at position p: 2 for CR
\* LF, 1 for a CR that no LF of the text follows and for LF, 0 for none.
TerminatorAt(p) ==
    IF p >= last THEN 0
    ELSE IF input[p] = 13 THEN (IF p + 1 < last /\ input[p + 1] = 10 THEN 2 ELSE 1)
    ELSE IF input[p] = 10 THEN 1
    ELSE 0

\* C37: advance_newline takes exactly the one line terminator at its
\* position and returns true; where there is none it returns false and the
\* position stays.
C37_NewlineTakesOneTerminator ==
    call.name = "newline" =>
        /\ call.ok = (TerminatorAt(call.from) > 0)
        /\ pos = call.from + TerminatorAt(call.from)

\* A CR ends the text and the slot behind the text holds an LF.
C37_Witness ==
    /\ call.name = "newline" /\ call.ok
    /\ input = <<13>> /\ eos = 10 /\ call.from = 1 /\ pos = 2

\* The digit string d, of digits alone, denotes a value above LONG_MAX:
\* without its leading zeros it is longer than the digits of LONG_MAX, or as
\* long and greater at the first digit where the two differ.
Significant(d) ==
    SubSeq(d, CHOOSE k \in 1..Len(d) :
                  /\ \A j \in 1..(k - 1) : d[j] = 48
                  /\ (d[k] # 48 \/ k = Len(d)),
           Len(d))

Above(d, m) ==
    \/ Len(d) > Len(m)
    \/ /\ Len(d) = Len(m)
       /\ \E k \in 1..Len(d) : d[k] > m[k] /\ \A j \in 1..(k - 1) : d[j] = m[j]

\* The text to_decimal_number was called with.
Converted == Slice(buffer, call.from, last)

AllDigits(d) == \A i \in DOMAIN d : d[i] >= 48 /\ d[i] <= 57

\* C38: to_decimal_number returns {v, true} for a digit string of value
\* v <= LONG_MAX, {LONG_MAX, false} for a digit string of a greater value
\* and {0, false} for a text with a character that is no digit; it is never
\* true with a value outside 0..LONG_MAX and no sum it computes overflows.
C38_DecimalWithinLong ==
    (call.name = "to_decimal_number" /\ Converted # <<>>) =>
        /\ pc # "crashed"
        /\ call.ok => (call.value >= 0 /\ call.value <= LONG_MAX)
        /\ IF ~AllDigits(Converted) THEN ~call.ok /\ call.value = 0
           ELSE IF Above(Significant(Converted), Digits(LONG_MAX))
           THEN ~call.ok /\ call.value = LONG_MAX
           ELSE call.ok /\ call.value = Decimal(Significant(Converted))


\* What the slot behind the text may hold.
Slots == {0, 10, 46, 49}

\* The advancer of the last call applied to the text with e in the slot
\* behind it.
Outcome(e) ==
    IF call.name = "internet_newline"
    THEN Plain(advance_internet_newline(Append(input, e), call.from, last))
    ELSE advance_number_value(Append(input, e), call.from, last)

\* C39: advance_internet_newline and advance_number_value read no character
\* at `last`: they never leave the position behind `last`, and what they
\* return, where they stop and the callbacks they make are the same whatever
\* the slot behind the text holds.
C39_NoReadAtLast ==
    call.name \in {"internet_newline", "number_value"} =>
        /\ pos <= last
        /\ \A e \in Slots :
               \E r \in {Outcome(e)} : r.ok = call.ok /\ r.pos = pos /\ r.ev = trace

\* The calls of op one loop of the driver makes from position p with the
\* bound n: those that returned true and, where the loop was stopped by op
\* and not by its bound or the end of the text, the one that returned false.
LoopApplications(p, n, op) ==
    The({ IF l.pos # last /\ l.count < n /\ ~ApplyOp(op, buffer, l.pos, last).ok
          THEN l.count + 1
          ELSE l.count
          : l \in {repetition_loop(buffer, p, last, 0, n, op)} })

\* The calls of op the driver makes in its two loops.
Applications(p, range, op) ==
    The({ LoopApplications(p, range[1], op)
          + (IF lo.count = range[1] THEN LoopApplications(lo.pos, range[2], op) ELSE 0)
          : lo \in {repetition_loop(buffer, p, last, 0, range[1], op)} })

\* One round of a loop from p to q moves forward and stays in the text.
Forward(p, q) == p < q /\ q <= last

\* C40: the loops of the advancers are bounded.  No call moves the position
\* backward; a round of advance_linear_whitespace that goes on moves the
\* position forward within the text; advance_repetition_by_range calls its
\* matcher at most range.first + range.second times; and each round of
\* advance_rulelist, a rule or a line of white space and comment, ends at a
\* position after the one it started at, so the text is passed once.
C40_LoopsAdvance ==
    /\ call.name # "none" => call.from <= pos
    /\ call.name = "linear_whitespace" =>
           /\ pos <= last
           /\ \A p \in call.from..(last - 1) :
                  \E nl \in {advance_newline(buffer, p, last)} :
                      IF nl.ok THEN Forward(p, nl.pos) ELSE nl.pos = p
    /\ call.name = "repetition_by_range" =>
           Applications(call.from, call.range, call.op) <= call.range[1] + call.range[2]
    /\ call.name = "rulelist" =>
           /\ pos <= last
           /\ \A p \in call.from..(last - 1) :
                  /\ \E r \in {advance_rule(buffer, p, last)} :
                         r.ok => Forward(p, r.pos)
                  /\ \E nl \in {advance_comment_newline(buffer,
                                                       skip_c_wsp(buffer, p, last), last)} :
                         nl.ok => Forward(p, nl.pos)

\* The driver has called its matcher range.first + range.second times.
C40_Witness ==
    /\ call.name = "repetition_by_range" /\ call.ok /\ call.op = "alpha"
    /\ call.range = <<1, 2>> /\ input = Str(<<"a", "b", "c">>)
    /\ call.from = 1 /\ pos = 4
    /\ Applications(1, <<1, 2>>, "alpha") = 3
=============================================================================
